---- MODULE Spec2Model ----
(***************************************************************************)
(* A model of the tayt fuzzing engine (crytic/tayt): the property-mode     *)
(* worker (src/tayt/fuzzer_worker.py) and the exception-mode worker        *)
(* (src/tayt/workers/fuzzer_worker_exception.py) with their shrinkers,     *)
(* running against a deployed contract.  The contract under test and the   *)
(* execution substrate (StarknetState) are inputs: a small family of       *)
(* deterministic contracts is enumerated in Init.                          *)
(***************************************************************************)
EXTENDS Integers, Sequences, FiniteSets, TLC

VARIABLES
    config,               \* FuzzerConfig of the run: contract, no_shrink, exception mode
    fstate,               \* Fuzzer.state: storage of the post-deploy StarknetState object
    property_functions,   \* Fuzzer.property_functions (list of names)
    assertion_exception,  \* Fuzzer.assertion_exception (list of message templates)
    coverage,             \* Fuzzer.coverage: contract address -> set of PCs
    reported,             \* what fuzz() has logged as violated, in order
    pc,                   \* per worker: position in fuzz()
    state,                \* per worker: FuzzerWorker.state
    seqi,                 \* per worker: iterations of range(seq_len) already started
    transactions,         \* per worker: local `transactions`
    violated,             \* per worker: local `violated` of the running oracle check
    pidx,                 \* per worker: position of the list iterator of the check
    curprop,              \* per worker: `property_function` of the pending call_raw
    caller,               \* per worker: who awaits the oracle check ("test"/"shrink")
    invoked,              \* per worker: properties called by the running check
    checkStart,           \* per worker: property_functions when the check started
    properties_violated,  \* per worker: argument of _shrink_tx_sequence
    shrinked_sequence,    \* per worker: local `shrinked_sequence`
    test_sequence,        \* per worker: local `test_sequence`
    i,                    \* per worker: cursor of the shrinker
    message,              \* per worker: exception-mode message of the finding
    trials,               \* per worker: trial replays done by the running shrinker
    lastcall,             \* per worker: how the last invoke_raw of _test_tx_sequence ended
    fpc,                  \* position of the Fuzzer in start(): before, inside or after _deploy
    internal_calls,       \* call infos get_coverage_internal_calls has still to visit, in visit order
    deployed_address_to_class_hash,  \* Fuzzer._deployed_address_to_class_hash
    class_hash_to_contract_class,    \* Fuzzer._class_hash_to_contract_class
    call_tree,            \* the argument _deploy passed to get_coverage_internal_calls
    contract_class,       \* Fuzzer.contract_class: the compiled artifact, and how its deploy ends
    external_functions,   \* Fuzzer.external_functions
    warned,               \* names logging.warning of _deploy reported, in order
    args_blacklist_function, \* the names given with --blacklist-function
    abi,                  \* argument `abi` of TxGenerator._generate_fuzzed_abi_value
    calldata,             \* local `calldata` of _generate_fuzzed_abi_value, then the list it returned
    submitted_call,       \* what the last invoke_raw of a generated call was given
    rsample,              \* the values random.random() takes in _generate_int in this run (tenths)
    gpc                   \* position of the worker around generate_fuzzed_tx: "generate", "returned",
                          \* "submitted" (invoke_raw was called) or "exited" (sys.exit)

vars == << config, fstate, property_functions, assertion_exception, coverage,
           reported, pc, state, seqi, transactions, violated, pidx, curprop,
           caller, invoked, checkStart, properties_violated, shrinked_sequence,
           test_sequence, i, message, trials, lastcall,
           fpc, internal_calls, deployed_address_to_class_hash,
           class_hash_to_contract_class, call_tree, contract_class,
           external_functions, warned, args_blacklist_function, abi, calldata,
          submitted_call, rsample, gpc >>

\* the variables of a call of TxGenerator._generate_fuzzed_abi_value
genvars == << abi, calldata, submitted_call, rsample, gpc >>

\* what Fuzzer.start reads from the artifact
setupvars == << contract_class, external_functions, warned, args_blacklist_function >>

\* the variables of Fuzzer.start and Fuzzer._deploy, which the workers never write
deployvars == << fpc, internal_calls, deployed_address_to_class_hash,
                class_hash_to_contract_class, call_tree, setupvars >>

(***************************************************************************)
(* Bounds and configuration                                                *)
(***************************************************************************)

\* config.seq_len of the modelled runs (the CLI default is 10)
SeqLen == 4

\* Fuzzer.start creates one FuzzerWorker
Workers == {1}

\* config.psender, the CLI default
PSender == 1

\* Fuzzer.deployed_contract_address
MainAddr == "main"

\* class hash of the contract class deployed at an address
ClassHash(addr) == <<"class", addr>>

\* self.fuzzer.coverage.update(pc) of the workers.  Fuzzer.coverage is keyed
\* by contract address (src/tayt/fuzzer.py:111) while the workers pass the bare
\* set of program counters, as for the set-valued coverage of the earlier
\* Fuzzer (src/fuzzstark/fuzzer.py:62); the call is modelled as the union into
\* the entry of the deployed contract.
CoverageUpdate(cov, pcs) == [cov EXCEPT ![MainAddr] = @ \cup pcs]

\* values _generate_int is sampled at
FeltSample == {0, 1}

\* nonces of l1_handler calls are sampled at 2^128 and 2^250, written <<e, d>> for 2^e + d
NonceSample == { <<128, 0>>, <<250, 0>> }

\* nonce = None
None == << >>

(***************************************************************************)
(* Sequence helpers (Python list operations)                               *)
(***************************************************************************)

ToSet(s) == { s[k] : k \in 1..Len(s) }

\* s[:k] + s[k+1:] for the 0-based index k
RemoveAt(s, k) == SubSeq(s, 1, k) \o SubSeq(s, k + 2, Len(s))

\* position of the first occurrence of x in s, 0 when absent
IndexOf(s, x) ==
    IF x \in ToSet(s) THEN CHOOSE k \in 1..Len(s) : s[k] = x /\ \A j \in 1..(k-1) : s[j] # x
    ELSE 0

\* list.remove(x): drops the first occurrence (the caller handles ValueError)
ListRemove(s, x) == RemoveAt(s, IndexOf(s, x) - 1)

\* str.startswith
StartsWith(m, prefix) ==
    /\ Len(prefix) <= Len(m)
    /\ SubSeq(m, 1, Len(prefix)) = prefix

(***************************************************************************)
(* The contracts under test and the execution substrate.  Storage is a set *)
(* of flags; every call is a deterministic function of storage and call.   *)
(***************************************************************************)

PropertyPrograms == {"ScenarioB", "ScenarioB4", "Masking", "Alias", "Reverting", "Lost",
                     "AlwaysFalse"}
ExceptionPrograms == {"Asserts", "Overlap", "Early"}
Programs == PropertyPrograms \cup ExceptionPrograms

\* storage after the constructor ran
PostDeploy(prog) == {}

Fn(name, types, kind) == [name |-> name, arguments_type |-> types, type |-> kind]

\* Fuzzer.external_functions once _deploy has read the ABI
ExternalFunctions(prog) ==
    CASE prog = "Alias"     -> << Fn("f1", <<"felt">>, "function"), Fn("f2", << >>, "function") >>
      [] prog = "Reverting" -> << Fn("f1", << >>, "function"), Fn("f2", << >>, "function"),
                                  Fn("f3", << >>, "l1_handler") >>
      [] prog \in {"Lost", "AlwaysFalse"} ->
                               << Fn("f1", << >>, "function"), Fn("f2", << >>, "function") >>
      [] prog = "ScenarioB4" -> << Fn("f1", << >>, "function"), Fn("f2", << >>, "function"),
                                   Fn("f3", << >>, "function"), Fn("f4", << >>, "function") >>
      [] OTHER              -> << Fn("f1", << >>, "function"), Fn("f2", << >>, "function"),
                                  Fn("f3", << >>, "function") >>

\* Fuzzer.property_functions once _deploy has read the ABI
InitialProperties(prog) ==
    CASE prog \in {"ScenarioB", "ScenarioB4"} -> << "p1", "p2" >>
      [] prog = "AlwaysFalse" -> << "p1" >>
      [] prog = "Masking"   -> << "p1" >>
      [] prog = "Alias"     -> << "p1", "p2" >>
      [] prog = "Reverting" -> << "p1", "p2" >>
      [] prog = "Lost"      -> << "p1", "p2", "p3" >>
      [] OTHER              -> << >>

\* Fuzzer.assertion_exception once setup has read the hints of the artifact
InitialAssertions(prog) ==
    CASE prog = "Asserts" -> << <<1>>, <<2>> >>
      [] prog = "Overlap" -> << <<1>>, <<1, 3>> >>
      [] prog = "Early"   -> << <<1>> >>
      [] OTHER            -> << >>

\* config.sender
SenderPool(prog) == IF prog = "Reverting" THEN {0, 1} ELSE {0}

Ok(st, n)       == [ok |-> TRUE, st |-> st, events |-> << <<n, Cardinality(st)>> >>,
                    pcs |-> {n}, assertion |-> FALSE, msg |-> << >>]
Revert(st)      == [ok |-> FALSE, st |-> st, events |-> << >>, pcs |-> {},
                    assertion |-> FALSE, msg |-> << >>]
Raise(st, m)    == [ok |-> FALSE, st |-> st, events |-> << >>, pcs |-> {},
                    assertion |-> TRUE, msg |-> m]

\* StarknetState.invoke_raw: the outcome of one mutating call on storage st.
\* ok = FALSE is a StarkException; assertion tells whether its last line
\* carries the AssertionException signature, msg the text after ": ".
InvokeRaw(prog, st, fn, args, sender) ==
    CASE prog = "ScenarioB" ->
            ( CASE fn = "f1" -> Ok(st \cup {1}, 1)
                [] fn = "f2" -> Ok(st \cup {2}, 2)
                [] OTHER     -> Ok(st \cup {3}, 3) )
      [] prog = "Masking" ->
            ( CASE fn = "f1" -> Ok(st \cup {1}, 1)
                [] fn = "f2" -> Ok(IF 1 \in st THEN st ELSE st \cup {2}, 2)
                [] OTHER     -> Ok(IF 2 \in st THEN st ELSE st \cup {3}, 3) )
      [] prog = "Alias" ->
            ( CASE fn = "f1" -> IF args[1] # 0 /\ 1 \notin st THEN Ok(st \cup {1}, 1)
                                ELSE Revert(st)
                [] OTHER     -> IF 1 \in st THEN Ok(st \cup {2}, 2) ELSE Ok(st \cup {3}, 2) )
      [] prog = "Reverting" ->
            ( CASE fn = "f1" -> Revert(st)
                [] fn = "f2" -> IF sender = 0 THEN Ok(st \cup {1}, 2) ELSE Revert(st)
                [] OTHER     -> IF 1 \in st THEN Ok(st \cup {2}, 3) ELSE Revert(st) )
      [] prog = "Lost" ->
            ( CASE fn = "f1" -> Ok(st \cup {1}, 1)
                [] OTHER     -> Ok(st \cup {2}, 2) )
      [] prog = "ScenarioB4" ->
            ( CASE fn = "f1" -> Ok(st \cup {1}, 1)
                [] fn = "f2" -> Ok(st \cup {2}, 2)
                [] fn = "f3" -> Ok(st \cup {3}, 3)
                [] OTHER     -> Ok(st \cup {4}, 4) )
      [] prog = "AlwaysFalse" ->
            ( CASE fn = "f1" -> Revert(st)
                [] OTHER     -> Ok(st \cup {1}, 2) )
      [] prog = "Overlap" ->
            ( CASE fn = "f1" -> Ok(st \cup {1}, 1)
                [] fn = "f2" -> IF 1 \in st THEN Raise(st, <<1, 3>>) ELSE Ok(st \cup {2}, 2)
                [] OTHER     -> IF 2 \in st THEN Raise(st, <<1>>) ELSE Revert(st) )
      [] prog = "Early" ->
            ( CASE fn = "f1" -> Ok(st \cup {1}, 1)
                [] fn = "f2" -> IF 1 \in st THEN Ok(st \cup {2}, 2) ELSE Raise(st, <<1>>)
                [] OTHER     -> Raise(st, <<1>>) )
      [] OTHER ->
            ( CASE fn = "f1" -> Ok(st \cup {1}, 1)
                [] fn = "f2" -> IF 1 \in st THEN Raise(st, IF 2 \in st THEN <<1, 4>> ELSE <<1, 3>>)
                                ELSE Ok(st \cup {2}, 2)
                [] OTHER     -> IF 2 \in st THEN Raise(st, <<2>>)
                                ELSE IF 1 \in st THEN Revert(st) ELSE Raise(st, <<9>>) )

Ret(v, n)     == [ok |-> TRUE, retdata |-> <<v>>, events |-> IF v = 0 THEN << <<n>> >> ELSE << >>,
                  pcs |-> {10 + n}]
RetQuiet(v, n) == [ok |-> TRUE, retdata |-> <<v>>, events |-> << >>, pcs |-> {10 + n}]
PropRevert    == [ok |-> FALSE, retdata |-> << >>, events |-> << >>, pcs |-> {}]
Bool(holds)   == IF holds THEN 1 ELSE 0

\* StarknetState.call_raw of a property: read-only, storage is left as it is
CallRaw(prog, st, name, sender) ==
    CASE prog = "ScenarioB" ->
            ( IF name = "p1" THEN Ret(Bool(~({1, 2, 3} \subseteq st)), 1)
              ELSE Ret(Bool(1 \notin st), 2) )
      [] prog = "ScenarioB4" ->
            ( IF name = "p1" THEN Ret(Bool(~({1, 2, 3} \subseteq st)), 1)
              ELSE Ret(Bool(4 \notin st), 2) )
      [] prog = "AlwaysFalse" -> RetQuiet(0, 1)
      [] prog = "Masking" -> Ret(Bool(3 \notin st), 1)
      [] prog = "Alias" ->
            ( IF name = "p1" THEN Ret(Bool(2 \notin st), 1)
              ELSE Ret(Bool(~(3 \in st /\ 2 \notin st)), 2) )
      [] prog = "Reverting" ->
            ( IF name = "p1" THEN (IF st = {1} THEN PropRevert ELSE Ret(Bool(2 \notin st), 1))
              ELSE Ret(Bool(1 \notin st), 2) )
      [] prog = "Lost" ->
            ( CASE name = "p1" -> Ret(Bool(1 \notin st), 1)
                [] name = "p2" -> Ret(1, 2)
                [] OTHER       -> IF st = {1} THEN PropRevert ELSE Ret(1, 3) )
      [] OTHER -> Ret(1, 1)

(***************************************************************************)
(* TxGenerator.generate_fuzzed_tx                                          *)
(***************************************************************************)

\* _generate_fuzzed_abi_value on a list of felt arguments, at the sampled values
GenArgs(types) == { a \in [1..Len(types) -> FeltSample] : TRUE }

EntryPointType(fn) == IF fn.type = "function" THEN "EXTERNAL" ELSE "L1_HANDLER"

\* every (sender, function_name, arguments, entry_point_type, nonce) one draw can give
GenerateFuzzedTx(prog) ==
    { [sender |-> s, function_name |-> fn.name, arguments |-> a,
       entry_point_type |-> EntryPointType(fn), nonce |-> n] :
        s \in SenderPool(prog),
        fn \in ToSet(ExternalFunctions(prog)),
        a \in UNION { GenArgs(g.arguments_type) : g \in ToSet(ExternalFunctions(prog)) },
        n \in NonceSample \cup {None} }

\* mutant: every draw carries a nonce
GeneratedAllNonce(prog) ==
    { tx \in GenerateFuzzedTx(prog) :
        \E fn \in ToSet(ExternalFunctions(prog)) :
            /\ fn.name = tx.function_name
            /\ Len(tx.arguments) = Len(fn.arguments_type)
            /\ tx.nonce # None }

\* the draws that fit the chosen function: its argument count, a nonce iff l1_handler
Generated(prog) ==
    { tx \in GenerateFuzzedTx(prog) :
        \E fn \in ToSet(ExternalFunctions(prog)) :
            /\ fn.name = tx.function_name
            /\ Len(tx.arguments) = Len(fn.arguments_type)
            /\ (tx.nonce = None) <=> (fn.type = "function") }

TxSequenceElement(tx, events) ==
    [sender |-> tx.sender, function_name |-> tx.function_name, arguments |-> tx.arguments,
     entry_point_type |-> tx.entry_point_type, nonce |-> tx.nonce, events_emitted |-> events]

ViolatedProperty(name, events) == [name |-> name, events_emitted |-> events]

Names(vs) == [k \in 1..Len(vs) |-> vs[k].name]

(***************************************************************************)
(* The worker's state object                                               *)
(***************************************************************************)

NoState == [obj |-> "none", val |-> {}]

\* mutant: `self.state = self.fuzzer.state`, the baseline object itself
CopyStateAlias(base) == [obj |-> "base", val |-> base]

\* StarknetState.copy(): a new object with the contents of the copied one
CopyState(base) == [obj |-> "own", val |-> base]

\* storage of the object self.state refers to
Storage(self) == IF state[self].obj = "base" THEN fstate ELSE state[self].val

\* a call on self.state leaves storage st in the object self.state refers to
WriteState(self, st) ==
    /\ fstate' = IF state[self].obj = "base" THEN st ELSE fstate
    /\ state' = [state EXCEPT ![self].val = IF state[self].obj = "base" THEN @ ELSE st]

Call(self, e) == InvokeRaw(config.prog, Storage(self), e.function_name, e.arguments, e.sender)

\* mutant: the replay submits the recorded call without its nonce, as an
\* external call
InvokeArgsExternal(transaction) ==
    [function_name |-> transaction.function_name, arguments |-> transaction.arguments,
     sender |-> transaction.sender, entry_point_type |-> "EXTERNAL", nonce |-> None]

\* the arguments a shrink replay passes to invoke_raw for a recorded transaction
InvokeArgs(transaction) ==
    [function_name |-> transaction.function_name, arguments |-> transaction.arguments,
     sender |-> transaction.sender, entry_point_type |-> transaction.entry_point_type,
     nonce |-> transaction.nonce]

\* the replay loop of the property shrinker: every element is submitted, and a
\* reverted call leaves the state as it was.  `calls` lists what was passed to
\* invoke_raw, in order.
RECURSIVE ReplayRun(_, _, _, _)
ReplayRun(prog, st, seq, calls) ==
    IF seq = << >> THEN [st |-> st, calls |-> calls]
    ELSE LET c == InvokeArgs(Head(seq))
             r == InvokeRaw(prog, st, c.function_name, c.arguments, c.sender)
         IN  ReplayRun(prog, IF r.ok THEN r.st ELSE st, Tail(seq), Append(calls, c))

\* the state the replay loop of the property shrinker leaves
ReplayFrom(prog, st, seq) == ReplayRun(prog, st, seq, << >>).st

\* the replay loop of the exception shrinker: stops at the first revert whose
\* AssertionException message equals exception_message
RECURSIVE ExcReplayRun(_, _, _, _, _)
ExcReplayRun(prog, st, seq, exception_message, calls) ==
    IF seq = << >> THEN [st |-> st, exception |-> FALSE, calls |-> calls]
    ELSE LET c == InvokeArgs(Head(seq))
             r == InvokeRaw(prog, st, c.function_name, c.arguments, c.sender)
         IN  IF r.ok THEN ExcReplayRun(prog, r.st, Tail(seq), exception_message, Append(calls, c))
             ELSE IF r.assertion /\ r.msg = exception_message
                  THEN [st |-> st, exception |-> TRUE, calls |-> Append(calls, c)]
                  ELSE ExcReplayRun(prog, st, Tail(seq), exception_message, Append(calls, c))

\* the state the replay loop of the exception shrinker leaves, and its flag
ExcReplayFrom(prog, st, seq, exception_message) ==
    LET run == ExcReplayRun(prog, st, seq, exception_message, << >>)
    IN  [st |-> run.st, exception |-> run.exception]

(***************************************************************************)
(* Initial state: the Fuzzer after _deploy, one worker about to run fuzz() *)
(***************************************************************************)

Init ==
    /\ config \in { [prog |-> p, no_shrink |-> ns, exception_mode |-> (p \in ExceptionPrograms)] :
                        p \in Programs, ns \in BOOLEAN }
    /\ fstate = PostDeploy(config.prog)
    /\ property_functions = InitialProperties(config.prog)
    /\ assertion_exception = InitialAssertions(config.prog)
    /\ coverage = [a \in {MainAddr} |-> {0}]
    /\ reported = << >>
    /\ pc = [w \in Workers |-> "fuzz"]
    /\ state = [w \in Workers |-> NoState]
    /\ seqi = [w \in Workers |-> 0]
    /\ transactions = [w \in Workers |-> << >>]
    /\ violated = [w \in Workers |-> << >>]
    /\ pidx = [w \in Workers |-> 0]
    /\ curprop = [w \in Workers |-> ""]
    /\ caller = [w \in Workers |-> ""]
    /\ invoked = [w \in Workers |-> {}]
    /\ checkStart = [w \in Workers |-> << >>]
    /\ properties_violated = [w \in Workers |-> << >>]
    /\ shrinked_sequence = [w \in Workers |-> << >>]
    /\ test_sequence = [w \in Workers |-> << >>]
    /\ i = [w \in Workers |-> 0]
    /\ message = [w \in Workers |-> << >>]
    /\ trials = [w \in Workers |-> 0]
    /\ lastcall = [w \in Workers |-> "none"]
    /\ fpc = "deployed"
    /\ internal_calls = << >>
    /\ deployed_address_to_class_hash = [a \in {MainAddr} |-> ClassHash(MainAddr)]
    /\ class_hash_to_contract_class = [h \in {ClassHash(MainAddr)} |-> MainAddr]
    /\ call_tree = << >>
    /\ contract_class = None
    /\ external_functions = ExternalFunctions(config.prog)
    /\ warned = << >>
    /\ args_blacklist_function = {}
    /\ abi = << >>
    /\ calldata = << >>
    /\ submitted_call = None
    /\ rsample = {}
    /\ gpc = "generate"

\* the locals of a finished iteration are dead: back to their initial values
ResetLocals(self) ==
    /\ seqi' = [seqi EXCEPT ![self] = 0]
    /\ transactions' = [transactions EXCEPT ![self] = << >>]
    /\ violated' = [violated EXCEPT ![self] = << >>]
    /\ pidx' = [pidx EXCEPT ![self] = 0]
    /\ curprop' = [curprop EXCEPT ![self] = ""]
    /\ caller' = [caller EXCEPT ![self] = ""]
    /\ invoked' = [invoked EXCEPT ![self] = {}]
    /\ checkStart' = [checkStart EXCEPT ![self] = << >>]
    /\ properties_violated' = [properties_violated EXCEPT ![self] = << >>]
    /\ shrinked_sequence' = [shrinked_sequence EXCEPT ![self] = << >>]
    /\ test_sequence' = [test_sequence EXCEPT ![self] = << >>]
    /\ i' = [i EXCEPT ![self] = 0]
    /\ message' = [message EXCEPT ![self] = << >>]
    /\ trials' = [trials EXCEPT ![self] = 0]

shrinkLocals == << properties_violated, shrinked_sequence, test_sequence, i, message, trials >>
checkLocals == << violated, pidx, curprop, caller, invoked, checkStart >>

(***************************************************************************)
(* FuzzerWorker (property mode)                                            *)
(***************************************************************************)

\* mutant: the loop gives up with one obligation left
LoopExitsEarly(obligations) == Len(obligations) <= 1

\* mutant: the loop is entered whatever is left
LoopNeverExits(obligations) == FALSE

\* `while 1: if len(self.fuzzer.property_functions) == 0: break`
LoopExits(obligations) == Len(obligations) = 0

\* fuzz(), loop head: leave when no property is left, else enter
\* _test_tx_sequence, which first resets self.state
Fuzz(self) ==
    /\ pc[self] = "fuzz"
    /\ UNCHANGED << deployvars, genvars >>
    /\ ~config.exception_mode
    /\ IF LoopExits(property_functions)
       THEN /\ pc' = [pc EXCEPT ![self] = "done"]
            /\ UNCHANGED state
       ELSE /\ pc' = [pc EXCEPT ![self] = "tx"]
            /\ state' = [state EXCEPT ![self] = CopyState(fstate)]
    /\ UNCHANGED << config, fstate, property_functions, assertion_exception, coverage,
                    reported, seqi, transactions, checkLocals, shrinkLocals >>
    /\ lastcall' = [lastcall EXCEPT ![self] = "none"]

\* mutant: the loop runs once more than seq_len
RangeHasNextOneMore(k) == k < SeqLen

\* `for _ in range(self.fuzzer.config.seq_len)` after k iterations were started
\* and the one running ends: is there a next one
RangeHasNext(k) == k + 1 < SeqLen

\* `continue` / end of the loop body of _test_tx_sequence: the next iteration of
\* range(seq_len), or `return None, None` and fuzz() is at its loop head again.
\* kept is `transactions` as the body left it.
NextIteration(self, kept) ==
    IF RangeHasNext(seqi[self])
    THEN /\ pc' = [pc EXCEPT ![self] = IF config.exception_mode THEN "xtx" ELSE "tx"]
         /\ seqi' = [seqi EXCEPT ![self] = @ + 1]
         /\ transactions' = [transactions EXCEPT ![self] = kept]
         /\ violated' = [violated EXCEPT ![self] = << >>]
         /\ pidx' = [pidx EXCEPT ![self] = 0]
         /\ curprop' = [curprop EXCEPT ![self] = ""]
         /\ caller' = [caller EXCEPT ![self] = ""]
         /\ invoked' = [invoked EXCEPT ![self] = {}]
         /\ checkStart' = [checkStart EXCEPT ![self] = << >>]
         /\ UNCHANGED shrinkLocals
    ELSE /\ pc' = [pc EXCEPT ![self] = "fuzz"]
         /\ ResetLocals(self)

\* mutant: the element is appended before invoke_raw is awaited
KeptOnRevertAppended(seq, tx) == Append(seq, TxSequenceElement(tx, << >>))

\* `except StarkException: continue` of _test_tx_sequence: the sequence after a
\* generated call tx reverted in invoke_raw
KeptOnRevert(seq, tx) == seq

\* _test_tx_sequence, one iteration up to the oracle check: generate a call,
\* submit it; on success record coverage, append the element and start
\* _check_violated_property_tests; on StarkException `continue`
TestTx(self) ==
    /\ pc[self] = "tx"
    /\ UNCHANGED << deployvars, genvars >>
    /\ \E tx \in Generated(config.prog) :
         LET r == Call(self, tx) IN
         /\ lastcall' = [lastcall EXCEPT ![self] = IF r.ok THEN "ok" ELSE "revert"]
         /\ IF r.ok
            THEN /\ WriteState(self, r.st)
                 /\ coverage' = CoverageUpdate(coverage, r.pcs)
                 /\ transactions' = [transactions EXCEPT
                                       ![self] = Append(@, TxSequenceElement(tx, r.events))]
                 /\ violated' = [violated EXCEPT ![self] = << >>]
                 /\ pidx' = [pidx EXCEPT ![self] = 0]
                 /\ caller' = [caller EXCEPT ![self] = "test"]
                 /\ invoked' = [invoked EXCEPT ![self] = {}]
                 /\ checkStart' = [checkStart EXCEPT ![self] = property_functions]
                 /\ pc' = [pc EXCEPT ![self] = "check"]
                 /\ UNCHANGED << seqi, curprop, shrinkLocals >>
            ELSE /\ NextIteration(self, KeptOnRevert(transactions[self], tx))
                 /\ UNCHANGED << fstate, state, coverage >>
    /\ UNCHANGED << config, property_functions, assertion_exception, reported >>

\* _check_violated_property_tests: the list iterator yields the next property
\* and its call_raw is submitted
CheckCall(self) ==
    /\ pc[self] = "check"
    /\ UNCHANGED << deployvars, genvars >>
    /\ pidx[self] < Len(property_functions)
    /\ curprop' = [curprop EXCEPT ![self] = property_functions[pidx[self] + 1]]
    /\ pidx' = [pidx EXCEPT ![self] = @ + 1]
    /\ invoked' = [invoked EXCEPT ![self] = @ \cup {property_functions[pidx[self] + 1]}]
    /\ pc' = [pc EXCEPT ![self] = "check_ret"]
    /\ UNCHANGED << config, fstate, property_functions, assertion_exception, coverage,
                    reported, state, seqi, transactions, violated, caller, checkStart,
                    shrinkLocals >>
    /\ UNCHANGED lastcall

\* mutant: the violated property is removed at detection whatever no_shrink is
RemoveViolatedAtOnce(no_shrink, props, name) == ListRemove(props, name)

\* `if self.fuzzer.config.no_shrink: self.fuzzer.property_functions.remove(property_function)`
RemoveViolated(no_shrink, props, name) ==
    IF no_shrink THEN ListRemove(props, name) ELSE props

\* _check_violated_property_tests: the call_raw of curprop returns.  A revert
\* is a StarkException: _test_tx_sequence catches it (`continue`), the
\* shrinker does not, and it leaves fuzz().
CheckRet(self) ==
    /\ pc[self] = "check_ret"
    /\ UNCHANGED << deployvars, genvars >>
    /\ LET r == CallRaw(config.prog, Storage(self), curprop[self], PSender) IN
       IF ~r.ok
       THEN IF caller[self] = "test"
            THEN /\ NextIteration(self, transactions[self])
                 /\ UNCHANGED << property_functions, coverage >>
            ELSE /\ pc' = [pc EXCEPT ![self] = "crashed"]
                 /\ UNCHANGED << property_functions, coverage, seqi, transactions,
                                 checkLocals, shrinkLocals >>
       ELSE /\ coverage' = CoverageUpdate(coverage, r.pcs)
            /\ IF r.retdata = <<0>>
               THEN IF config.no_shrink /\ curprop[self] \notin ToSet(property_functions)
                    THEN \* list.remove raises ValueError
                         /\ pc' = [pc EXCEPT ![self] = "crashed"]
                         /\ UNCHANGED << property_functions, violated >>
                    ELSE /\ property_functions' =
                                RemoveViolated(config.no_shrink, property_functions, curprop[self])
                         /\ violated' = [violated EXCEPT
                                ![self] = Append(@, ViolatedProperty(curprop[self], r.events))]
                         /\ pc' = [pc EXCEPT ![self] = "check"]
               ELSE /\ pc' = [pc EXCEPT ![self] = "check"]
                    /\ UNCHANGED << property_functions, violated >>
            /\ UNCHANGED << seqi, transactions, pidx, curprop, caller, invoked, checkStart,
                            shrinkLocals >>
    /\ UNCHANGED << config, fstate, assertion_exception, reported, state >>
    /\ UNCHANGED lastcall

\* mutant: the cursor advances after every trial
NextCursorAlways(k, reproduced) == k + 1

\* the cursor after a trial: it stays when the trial was adopted (the element
\* that followed is now at index i), else `i += 1`
NextCursor(k, reproduced) == IF reproduced THEN k ELSE k + 1

\* mutant: a trial counts as soon as it violates any property
ReproducesAny(found, expected) == Len(found) > 0

\* `if len(violated) == len(properties_violated)` of the shrinker
Reproduces(found, expected) == Len(found) = Len(expected)

\* _check_violated_property_tests returns `violated` to its caller.
\* In _test_tx_sequence: a non-empty list is returned to fuzz() with the
\* sequence, and fuzz() calls the shrinker unless no_shrink.
\* In _shrink_tx_sequence: the trial is adopted or the cursor advances.
CheckReturn(self) ==
    /\ pc[self] = "check"
    /\ UNCHANGED << deployvars, genvars >>
    /\ pidx[self] >= Len(property_functions)
    /\ IF caller[self] = "test"
       THEN IF Len(violated[self]) > 0
            THEN /\ properties_violated' = [properties_violated EXCEPT ![self] = violated[self]]
                 /\ shrinked_sequence' = [shrinked_sequence EXCEPT ![self] = transactions[self]]
                 /\ i' = [i EXCEPT ![self] = 0]
                 /\ pc' = [pc EXCEPT ![self] = IF config.no_shrink THEN "report" ELSE "shrink"]
                 /\ violated' = [violated EXCEPT ![self] = << >>]
                 /\ pidx' = [pidx EXCEPT ![self] = 0]
                 /\ curprop' = [curprop EXCEPT ![self] = ""]
                 /\ caller' = [caller EXCEPT ![self] = ""]
                 /\ invoked' = [invoked EXCEPT ![self] = {}]
                 /\ checkStart' = [checkStart EXCEPT ![self] = << >>]
                 /\ UNCHANGED << seqi, transactions, test_sequence, message, trials >>
            ELSE NextIteration(self, transactions[self])
       ELSE /\ IF Reproduces(violated[self], properties_violated[self])
               THEN /\ shrinked_sequence' = [shrinked_sequence EXCEPT ![self] = test_sequence[self]]
                    /\ i' = [i EXCEPT ![self] = NextCursor(@, TRUE)]
               ELSE /\ i' = [i EXCEPT ![self] = NextCursor(@, FALSE)]
                    /\ UNCHANGED shrinked_sequence
            /\ pc' = [pc EXCEPT ![self] = "shrink"]
            /\ violated' = [violated EXCEPT ![self] = << >>]
            /\ pidx' = [pidx EXCEPT ![self] = 0]
            /\ curprop' = [curprop EXCEPT ![self] = ""]
            /\ caller' = [caller EXCEPT ![self] = ""]
            /\ invoked' = [invoked EXCEPT ![self] = {}]
            /\ checkStart' = [checkStart EXCEPT ![self] = << >>]
            /\ UNCHANGED << seqi, transactions, properties_violated, test_sequence,
                            message, trials >>
    /\ UNCHANGED << config, fstate, property_functions, assertion_exception, coverage,
                    reported, state >>
    /\ UNCHANGED lastcall

\* mutant: the slice after the removed element starts one element late
TrialSequenceDropsTwo(seq, k) == SubSeq(seq, 1, k) \o SubSeq(seq, k + 3, Len(seq))

\* mutant: the two slices are joined the wrong way round
TrialSequenceSwapped(seq, k) == SubSeq(seq, k + 2, Len(seq)) \o SubSeq(seq, 1, k)

\* `shrinked_sequence[:i] + shrinked_sequence[i + 1 :]`
TrialSequence(seq, k) == RemoveAt(seq, k)

\* _shrink_tx_sequence, loop head with i < len(shrinked_sequence): build the
\* trial without element i and reset self.state
ShrinkBegin(self) ==
    /\ pc[self] = "shrink"
    /\ UNCHANGED << deployvars, genvars >>
    /\ i[self] < Len(shrinked_sequence[self])
    /\ test_sequence' = [test_sequence EXCEPT ![self] = TrialSequence(shrinked_sequence[self], i[self])]
    /\ state' = [state EXCEPT ![self] = CopyState(fstate)]
    /\ pc' = [pc EXCEPT ![self] = "replay"]
    /\ UNCHANGED << config, fstate, property_functions, assertion_exception, coverage,
                    reported, seqi, transactions, checkLocals, properties_violated,
                    shrinked_sequence, i, message, trials >>
    /\ UNCHANGED lastcall

\* _shrink_tx_sequence: replay the trial on self.state, reverted calls
\* skipped, then start the oracle check
ShrinkReplay(self) ==
    /\ pc[self] = "replay"
    /\ UNCHANGED << deployvars, genvars >>
    /\ WriteState(self, ReplayFrom(config.prog, Storage(self), test_sequence[self]))
    /\ trials' = [trials EXCEPT ![self] = @ + 1]
    /\ violated' = [violated EXCEPT ![self] = << >>]
    /\ pidx' = [pidx EXCEPT ![self] = 0]
    /\ caller' = [caller EXCEPT ![self] = "shrink"]
    /\ invoked' = [invoked EXCEPT ![self] = {}]
    /\ checkStart' = [checkStart EXCEPT ![self] = property_functions]
    /\ pc' = [pc EXCEPT ![self] = "check"]
    /\ UNCHANGED << config, property_functions, assertion_exception, coverage, reported,
                    seqi, transactions, curprop, properties_violated, shrinked_sequence,
                    test_sequence, i, message >>
    /\ UNCHANGED lastcall

\* `for p in properties_violated: self.fuzzer.property_functions.remove(p.name)`
RECURSIVE RemoveAll(_, _)
RemoveAll(props, names) ==
    IF names = << >> THEN props ELSE RemoveAll(ListRemove(props, Head(names)), Tail(names))

\* list.remove raises ValueError for a name that is not (or no longer) in the list
RECURSIVE RemoveRaises(_, _)
RemoveRaises(props, names) ==
    IF names = << >> THEN FALSE
    ELSE \/ Head(names) \notin ToSet(props)
         \/ RemoveRaises(ListRemove(props, Head(names)), Tail(names))

\* _shrink_tx_sequence, loop exit: retire the violated properties and return
\* shrinked_sequence to fuzz()
ShrinkEnd(self) ==
    /\ pc[self] = "shrink"
    /\ UNCHANGED << deployvars, genvars >>
    /\ i[self] >= Len(shrinked_sequence[self])
    /\ IF RemoveRaises(property_functions, Names(properties_violated[self]))
       THEN /\ pc' = [pc EXCEPT ![self] = "crashed"]
            /\ UNCHANGED property_functions
       ELSE /\ property_functions' = RemoveAll(property_functions, Names(properties_violated[self]))
            /\ pc' = [pc EXCEPT ![self] = "report"]
    /\ UNCHANGED << config, fstate, assertion_exception, coverage, reported, state, seqi,
                    transactions, checkLocals, shrinkLocals >>
    /\ UNCHANGED lastcall

\* fuzz(): log every violated property, then the call sequence (the shrunk one
\* unless no_shrink); back to the loop head
Report(self) ==
    /\ pc[self] = "report"
    /\ UNCHANGED << deployvars, genvars >>
    /\ reported' = reported \o Names(properties_violated[self])
    /\ pc' = [pc EXCEPT ![self] = "fuzz"]
    /\ ResetLocals(self)
    /\ UNCHANGED << config, fstate, property_functions, assertion_exception, coverage, state >>
    /\ UNCHANGED lastcall

(***************************************************************************)
(* FuzzerWorkerException (exception mode)                                  *)
(***************************************************************************)

\* fuzz(), loop head: leave when no assertion message is left, else enter
\* _test_tx_sequence, which first resets self.state
ExcFuzz(self) ==
    /\ pc[self] = "fuzz"
    /\ UNCHANGED << deployvars, genvars >>
    /\ config.exception_mode
    /\ IF LoopExits(assertion_exception)
       THEN /\ pc' = [pc EXCEPT ![self] = "done"]
            /\ UNCHANGED state
       ELSE /\ pc' = [pc EXCEPT ![self] = "xtx"]
            /\ state' = [state EXCEPT ![self] = CopyState(fstate)]
    /\ UNCHANGED << config, fstate, property_functions, assertion_exception, coverage,
                    reported, seqi, transactions, checkLocals, shrinkLocals >>
    /\ lastcall' = [lastcall EXCEPT ![self] = "none"]

\* `for exception_message in self.fuzzer.assertion_exception:
\*      if message.startswith(exception_message)`: the first template that matches
Matching(templates, m) == { k \in 1..Len(templates) : StartsWith(m, templates[k]) }

FirstMatch(templates, m) ==
    CHOOSE k \in Matching(templates, m) : \A j \in Matching(templates, m) : k <= j

\* mutant: the matching template and every template registered after it are dropped
RemoveTemplateAndAfter(templates, m) == SubSeq(templates, 1, FirstMatch(templates, m) - 1)

\* `self.fuzzer.assertion_exception.remove(exception_message)` followed by `return`
RemoveTemplate(templates, m) == RemoveAt(templates, FirstMatch(templates, m) - 1)

\* _test_tx_sequence, one iteration: generate a call and submit it.  A
\* successful call is appended and its coverage recorded.  A revert with the
\* AssertionException signature is appended with no events; if its message
\* starts with a live template, the template is removed and (transactions,
\* message) returned to fuzz(), which calls the shrinker unless no_shrink.
ExcTestTx(self) ==
    /\ pc[self] = "xtx"
    /\ UNCHANGED << deployvars, genvars >>
    /\ \E tx \in Generated(config.prog) :
         LET r == Call(self, tx) IN
         /\ lastcall' = [lastcall EXCEPT ![self] = IF r.ok THEN "ok" ELSE "revert"]
         /\ IF r.ok
            THEN /\ WriteState(self, r.st)
                 /\ coverage' = CoverageUpdate(coverage, r.pcs)
                 /\ NextIteration(self, Append(transactions[self], TxSequenceElement(tx, r.events)))
                 /\ UNCHANGED assertion_exception
            ELSE IF r.assertion
            THEN LET kept == Append(transactions[self], TxSequenceElement(tx, << >>)) IN
                 IF Matching(assertion_exception, r.msg) # {}
                 THEN /\ assertion_exception' = RemoveTemplate(assertion_exception, r.msg)
                      /\ transactions' = [transactions EXCEPT ![self] = kept]
                      /\ message' = [message EXCEPT ![self] = r.msg]
                      /\ shrinked_sequence' = [shrinked_sequence EXCEPT ![self] = kept]
                      /\ i' = [i EXCEPT ![self] = 0]
                      /\ pc' = [pc EXCEPT ![self] = IF config.no_shrink THEN "xreport" ELSE "xshrink"]
                      /\ UNCHANGED << fstate, state, coverage, seqi, checkLocals,
                                      properties_violated, test_sequence, trials >>
                 ELSE /\ NextIteration(self, kept)
                      /\ UNCHANGED << fstate, state, coverage, assertion_exception >>
            ELSE /\ NextIteration(self, transactions[self])
                 /\ UNCHANGED << fstate, state, coverage, assertion_exception >>
    /\ UNCHANGED << config, property_functions, reported >>

\* _shrink_tx_sequence, loop head with i < len(shrinked_sequence): build the
\* trial without element i and reset self.state
ExcShrinkBegin(self) ==
    /\ pc[self] = "xshrink"
    /\ UNCHANGED << deployvars, genvars >>
    /\ i[self] < Len(shrinked_sequence[self])
    /\ test_sequence' = [test_sequence EXCEPT ![self] = TrialSequence(shrinked_sequence[self], i[self])]
    /\ state' = [state EXCEPT ![self] = CopyState(fstate)]
    /\ pc' = [pc EXCEPT ![self] = "xreplay"]
    /\ UNCHANGED << config, fstate, property_functions, assertion_exception, coverage,
                    reported, seqi, transactions, checkLocals, properties_violated,
                    shrinked_sequence, i, message, trials >>
    /\ UNCHANGED lastcall

\* _shrink_tx_sequence: replay the trial on self.state until a call raises
\* the message of the finding; then the trial is adopted, else the cursor advances
ExcShrinkReplay(self) ==
    /\ pc[self] = "xreplay"
    /\ UNCHANGED << deployvars, genvars >>
    /\ LET r == ExcReplayFrom(config.prog, Storage(self), test_sequence[self], message[self]) IN
       /\ WriteState(self, r.st)
       /\ IF r.exception
          THEN /\ shrinked_sequence' = [shrinked_sequence EXCEPT ![self] = test_sequence[self]]
               /\ i' = [i EXCEPT ![self] = NextCursor(@, TRUE)]
          ELSE /\ i' = [i EXCEPT ![self] = NextCursor(@, FALSE)]
               /\ UNCHANGED shrinked_sequence
    /\ trials' = [trials EXCEPT ![self] = @ + 1]
    /\ pc' = [pc EXCEPT ![self] = "xshrink"]
    /\ UNCHANGED << config, property_functions, assertion_exception, coverage, reported,
                    seqi, transactions, checkLocals, properties_violated, test_sequence,
                    message >>
    /\ UNCHANGED lastcall

\* _shrink_tx_sequence, loop exit: return shrinked_sequence to fuzz()
ExcShrinkEnd(self) ==
    /\ pc[self] = "xshrink"
    /\ UNCHANGED << deployvars, genvars >>
    /\ i[self] >= Len(shrinked_sequence[self])
    /\ pc' = [pc EXCEPT ![self] = "xreport"]
    /\ UNCHANGED << config, fstate, property_functions, assertion_exception, coverage,
                    reported, state, seqi, transactions, checkLocals, shrinkLocals >>
    /\ UNCHANGED lastcall

\* fuzz(): log the message and the call sequence; back to the loop head
ExcReport(self) ==
    /\ pc[self] = "xreport"
    /\ UNCHANGED << deployvars, genvars >>
    /\ reported' = Append(reported, message[self])
    /\ pc' = [pc EXCEPT ![self] = "fuzz"]
    /\ ResetLocals(self)
    /\ UNCHANGED << config, fstate, property_functions, assertion_exception, coverage, state >>
    /\ UNCHANGED lastcall

(***************************************************************************)
(* The run                                                                 *)
(***************************************************************************)

Next ==
    \E self \in Workers :
        \/ Fuzz(self)
        \/ TestTx(self)
        \/ CheckCall(self)
        \/ CheckRet(self)
        \/ CheckReturn(self)
        \/ ShrinkBegin(self)
        \/ ShrinkReplay(self)
        \/ ShrinkEnd(self)
        \/ Report(self)
        \/ ExcFuzz(self)
        \/ ExcTestTx(self)
        \/ ExcShrinkBegin(self)
        \/ ExcShrinkReplay(self)
        \/ ExcShrinkEnd(self)
        \/ ExcReport(self)

Spec == Init /\ [][Next]_vars

(***************************************************************************)
(* Replaying a reported sequence                                           *)
(***************************************************************************)

\* the properties among props that return [0] on storage st
ViolatedAt(st, props) ==
    { p \in props : LET r == CallRaw(config.prog, st, p, PSender)
                    IN  r.ok /\ r.retdata = <<0>> }

\* the properties among props whose call reverts on storage st
RevertingAt(st, props) ==
    { p \in props : ~CallRaw(config.prog, st, p, PSender).ok }

\* the AssertionException messages raised while seq is replayed from st, every
\* call submitted in order and a reverted call leaving the storage as it was
RECURSIVE Raised(_, _, _)
Raised(prog, st, seq) ==
    IF seq = << >> THEN {}
    ELSE LET r == InvokeRaw(prog, st, Head(seq).function_name, Head(seq).arguments,
                            Head(seq).sender)
         IN  (IF ~r.ok /\ r.assertion THEN {r.msg} ELSE {})
                \cup Raised(prog, IF r.ok THEN r.st ELSE st, Tail(seq))

\* the properties that were live while the shrinker of the finding ran
LiveInShrink(self) ==
    ToSet(property_functions) \cup ToSet(Names(properties_violated[self]))

\* the property-mode shrinker has returned shrinked_sequence to fuzz()
Shrunk(self) == pc[self] = "report" /\ ~config.no_shrink

\* the exception-mode shrinker has returned shrinked_sequence to fuzz()
ExcShrunk(self) == pc[self] = "xreport" /\ ~config.no_shrink

\* a replay of seq from the baseline is judged equivalent to the finding, the
\* way a shrink trial judges it
Equivalent(self, seq) ==
    IF config.exception_mode
    THEN ExcReplayFrom(config.prog, PostDeploy(config.prog), seq, message[self]).exception
    ELSE LET st == ReplayFrom(config.prog, PostDeploy(config.prog), seq)
         IN  /\ RevertingAt(st, LiveInShrink(self)) = {}
             /\ Cardinality(ViolatedAt(st, LiveInShrink(self))) = Len(properties_violated[self])

(***************************************************************************)
(* C1: the sequence a shrinker returns is never longer than its input and, *)
(* replayed from the baseline, reproduces an equivalent violation: in      *)
(* property mode as many live properties return 0 at the end of the replay *)
(* as were violated originally; in exception mode some replayed call       *)
(* reverts with exactly the original assertion message.                    *)
(***************************************************************************)
C1_ShrinkerSound ==
    \A self \in Workers :
        /\ Shrunk(self) =>
            /\ Len(shrinked_sequence[self]) <= Len(transactions[self])
            /\ Cardinality(ViolatedAt(ReplayFrom(config.prog, PostDeploy(config.prog),
                                                 shrinked_sequence[self]),
                                      LiveInShrink(self)))
                 = Len(properties_violated[self])
        /\ ExcShrunk(self) =>
            /\ Len(shrinked_sequence[self]) <= Len(transactions[self])
            /\ message[self] \in Raised(config.prog, PostDeploy(config.prog),
                                        shrinked_sequence[self])

\* a property-mode shrinker returned a sequence shorter than its input
C1_Witness ==
    \E self \in Workers :
        /\ Shrunk(self)
        /\ 0 < Len(shrinked_sequence[self])
        /\ Len(shrinked_sequence[self]) < Len(transactions[self])

(***************************************************************************)
(* C2: in property mode, every property of properties_violated returns 0   *)
(* at the end of a replay of the returned sequence from the baseline.      *)
(***************************************************************************)
C2_SamePropertiesViolated ==
    \A self \in Workers :
        Shrunk(self) =>
            ToSet(Names(properties_violated[self])) \subseteq
                ViolatedAt(ReplayFrom(config.prog, PostDeploy(config.prog),
                                      shrinked_sequence[self]),
                           LiveInShrink(self))

(***************************************************************************)
(* C3: the returned sequence is 1-minimal: with any one element removed,   *)
(* its replay from the baseline does not reproduce an equivalent violation.*)
(***************************************************************************)
C3_OneMinimal ==
    \A self \in Workers :
        (Shrunk(self) \/ ExcShrunk(self)) =>
            \A j \in 0..(Len(shrinked_sequence[self]) - 1) :
                ~Equivalent(self, RemoveAt(shrinked_sequence[self], j))

\* the strictly increasing maps of the positions of sub into positions of seq
\* that pick equal elements
Embeddings(sub, seq) ==
    { f \in [1..Len(sub) -> 1..Len(seq)] :
        /\ \A a, b \in 1..Len(sub) : a < b => f[a] < f[b]
        /\ \A a \in 1..Len(sub) : seq[f[a]] = sub[a] }

(***************************************************************************)
(* C3, amended: every element of the returned sequence was the removed     *)
(* element of a trial that did not reproduce: the returned elements before *)
(* it followed by the input's elements after it are not an equivalent      *)
(* violation.  (Elements after it that a later trial removed were still    *)
(* present, so the result need not be 1-minimal.)                          *)
(***************************************************************************)
C3_KeptElementsWereTried ==
    \A self \in Workers :
        (Shrunk(self) \/ ExcShrunk(self)) =>
            \E f \in Embeddings(shrinked_sequence[self], transactions[self]) :
                \A j \in 1..Len(shrinked_sequence[self]) :
                    ~Equivalent(self,
                        SubSeq(shrinked_sequence[self], 1, j - 1)
                            \o SubSeq(transactions[self], f[j] + 1, Len(transactions[self])))

\* a shrinker returned a sequence that an adopted trial left not 1-minimal
C3_Witness ==
    \E self \in Workers :
        /\ Shrunk(self)
        /\ Len(shrinked_sequence[self]) < Len(transactions[self])
        /\ \E j \in 0..(Len(shrinked_sequence[self]) - 1) :
                Equivalent(self, RemoveAt(shrinked_sequence[self], j))

(***************************************************************************)
(* C4: a finished oracle check has invoked every property that was in the  *)
(* obligation set when it started, and every one of them that returns 0    *)
(* is in the violations list it returns.                                   *)
(***************************************************************************)
C4_EveryPropertyChecked ==
    \A self \in Workers :
        (pc[self] = "check" /\ pidx[self] >= Len(property_functions)) =>
            \A p \in ToSet(checkStart[self]) :
                /\ p \in invoked[self]
                /\ p \in ViolatedAt(Storage(self), {p}) => p \in ToSet(Names(violated[self]))

(***************************************************************************)
(* C5: no property leaves property_functions without being reported by     *)
(* fuzz(): whenever fuzz() is at its loop head, every property discovered  *)
(* at deploy is still live or has been logged as violated.                 *)
(***************************************************************************)
C5_RemovedIsReported ==
    \A self \in Workers :
        pc[self] = "fuzz" =>
            \A p \in ToSet(InitialProperties(config.prog)) :
                p \in ToSet(property_functions) \/ p \in ToSet(reported)

\* the obligations a step removes
Retired ==
    (ToSet(property_functions) \ ToSet(property_functions'))
        \cup (ToSet(assertion_exception) \ ToSet(assertion_exception'))

\* the step of self is the detection of a violation by the sequence test
DetectionStep(self) ==
    \/ pc[self] = "check_ret" /\ caller[self] = "test"
    \/ pc[self] = "xtx"

\* the step of self ends a shrinker whose last trial is done
ShrinkerEndStep(self) ==
    /\ pc[self] \in {"shrink", "xshrink"}
    /\ i[self] >= Len(shrinked_sequence[self])

(***************************************************************************)
(* C6: obligations are removed at most once and never speculatively: a     *)
(* step that removes an entry is the detection of its violation in         *)
(* no-shrink mode or the end of the shrinker in shrink mode; no other step *)
(* (a trial replay, a non-violating iteration) changes the obligation set, *)
(* and nothing is ever put back.                                           *)
(***************************************************************************)
C6_RemovedOnceOnAcceptance ==
    [][ /\ ToSet(property_functions') \subseteq ToSet(property_functions)
        /\ ToSet(assertion_exception') \subseteq ToSet(assertion_exception)
        /\ Len(property_functions) - Len(property_functions')
             = Cardinality(ToSet(property_functions) \ ToSet(property_functions'))
        /\ Len(assertion_exception) - Len(assertion_exception')
             = Cardinality(ToSet(assertion_exception) \ ToSet(assertion_exception'))
        /\ Retired # {} =>
             \E self \in Workers :
                 \/ config.no_shrink /\ DetectionStep(self)
                 \/ ~config.no_shrink /\ ShrinkerEndStep(self) ]_vars

\* live obligations of the run's mode
Obligations == IF config.exception_mode THEN assertion_exception ELSE property_functions

(***************************************************************************)
(* C7: the number of live obligations never increases, fuzz() never        *)
(* returns while an obligation is live, and with an empty obligation set   *)
(* the loop head starts no further iteration but returns.                  *)
(***************************************************************************)
C7_DrainsThenReturns ==
    [][ /\ Len(Obligations') <= Len(Obligations)
        /\ \A self \in Workers :
            /\ pc'[self] = "done" => Len(Obligations') = 0
            /\ (pc[self] = "fuzz" /\ Len(Obligations) = 0) => pc'[self] \in {"fuzz", "done"} ]_vars

\* fuzz() has returned after at least one finding was reported
C7_Witness ==
    \E self \in Workers : pc[self] = "done" /\ Len(reported) >= 2

(***************************************************************************)
(* C8: in property mode a mutating call that reverts is not appended to    *)
(* the sequence, starts no oracle check and leaves the sequence built so   *)
(* far and the coverage unchanged; the next generated call follows, or the *)
(* call budget is spent and the iteration is over.                         *)
(***************************************************************************)
C8_RevertIsDiscarded ==
    [][ \A self \in Workers :
          (pc[self] = "tx" /\ lastcall'[self] = "revert") =>
            /\ coverage' = coverage
            /\ invoked'[self] = {}
            /\ pc'[self] # "check"
            /\ IF seqi[self] + 1 < SeqLen
               THEN /\ pc'[self] = "tx"
                    /\ seqi'[self] = seqi[self] + 1
                    /\ transactions'[self] = transactions[self]
               ELSE pc'[self] = "fuzz" ]_vars

\* a call has just reverted after the sequence had grown, and the iteration goes on
C8_Witness ==
    \E self \in Workers :
        /\ pc[self] = "tx"
        /\ lastcall[self] = "revert"
        /\ Len(transactions[self]) > 0

\* _test_tx_sequence has just returned (transactions, violated) to fuzz()
Found(self) ==
    /\ properties_violated[self] # << >>
    /\ \/ pc[self] = "report" /\ config.no_shrink
       \/ pc[self] = "shrink" /\ trials[self] = 0 /\ ~config.no_shrink

\* the properties that were live at some time during the iteration of the finding
LiveInTest(self) ==
    ToSet(property_functions) \cup ToSet(Names(properties_violated[self]))

(***************************************************************************)
(* C9: when _test_tx_sequence returns (sequence, violations) the violation *)
(* holds right after the last element and no further call was submitted,   *)
(* and after every proper non-empty prefix of the sequence every live      *)
(* property returned nonzero: the sequence is the minimal triggering       *)
(* prefix.                                                                 *)
(***************************************************************************)
C9_MinimalTriggeringPrefix ==
    \A self \in Workers :
        Found(self) =>
            /\ Storage(self) = ReplayFrom(config.prog, PostDeploy(config.prog), transactions[self])
            /\ ToSet(Names(properties_violated[self])) \subseteq
                    ViolatedAt(Storage(self), LiveInTest(self))
            /\ \A k \in 1..(Len(transactions[self]) - 1) :
                 LET st == ReplayFrom(config.prog, PostDeploy(config.prog),
                                      SubSeq(transactions[self], 1, k))
                 IN  /\ ViolatedAt(st, LiveInTest(self)) = {}
                     /\ RevertingAt(st, LiveInTest(self)) = {}

\* the worker is about to submit or has submitted calls on self.state
UsesState(self) ==
    pc[self] \in {"tx", "check", "check_ret", "replay", "xtx", "xreplay"}

\* the worker is at the start of a fuzzing iteration or of a shrink trial
FreshStart(self) ==
    \/ pc[self] \in {"tx", "xtx"} /\ seqi[self] = 0 /\ lastcall[self] = "none"
    \/ pc[self] \in {"replay", "xreplay"}

(***************************************************************************)
(* C10: the post-deploy baseline Fuzzer.state is never mutated; every      *)
(* iteration and every shrink trial starts on a fresh copy that equals the *)
(* post-deploy state, and every call goes to the worker's copy.            *)
(***************************************************************************)
C10_BaselineNeverMutated ==
    /\ fstate = PostDeploy(config.prog)
    /\ \A self \in Workers :
        /\ UsesState(self) => state[self].obj = "own"
        /\ FreshStart(self) => Storage(self) = PostDeploy(config.prog)

\* a later shrink trial starts after earlier calls have changed the worker's storage
C10_Witness ==
    \E self \in Workers :
        /\ pc[self] \in {"replay", "xreplay"}
        /\ trials[self] >= 1
        /\ coverage[MainAddr] # {0}

\* the exception-mode _test_tx_sequence has returned (transactions, message) to fuzz()
ExcFound(self) == pc[self] \in {"xshrink", "xreplay", "xreport"}

\* the outcome of element k of seq when seq is submitted from the baseline
OutcomeAt(prog, seq, k) ==
    LET e == seq[k]
    IN  InvokeRaw(prog, ReplayFrom(prog, PostDeploy(prog), SubSeq(seq, 1, k - 1)),
                  e.function_name, e.arguments, e.sender)

(***************************************************************************)
(* C11: in every sequence the exception-mode _test_tx_sequence returns,    *)
(* the only reverted call is the last element, kept with no events; every  *)
(* element before it is a call that succeeded (a revert whose assertion    *)
(* message matches no live obligation is not kept).                        *)
(***************************************************************************)
C11_OnlyTerminalReverts ==
    \A self \in Workers :
        ExcFound(self) =>
            LET seq == transactions[self] IN
            /\ Len(seq) >= 1
            /\ ~OutcomeAt(config.prog, seq, Len(seq)).ok
            /\ seq[Len(seq)].events_emitted = << >>
            /\ \A k \in 1..(Len(seq) - 1) : OutcomeAt(config.prog, seq, k).ok

\* the step of self is the exception-mode _test_tx_sequence returning a finding
ExcFindingStep(self) ==
    /\ pc[self] = "xtx"
    /\ pc'[self] \in {"xshrink", "xreport"}

(***************************************************************************)
(* C12: in exception mode one finding removes exactly one obligation, a    *)
(* template the raised message starts with, and leaves every other         *)
(* template as it was; no other step changes the set; with a template      *)
(* still live the loop head starts the next iteration.                     *)
(***************************************************************************)
C12_OneFindingOneTemplate ==
    [][ \A self \in Workers :
          /\ ExcFindingStep(self) =>
                \E k \in 1..Len(assertion_exception) :
                    /\ StartsWith(message'[self], assertion_exception[k])
                    /\ assertion_exception' = RemoveAt(assertion_exception, k - 1)
          /\ (\A w \in Workers : ~ExcFindingStep(w)) =>
                assertion_exception' = assertion_exception
          /\ ( /\ config.exception_mode
               /\ pc[self] = "fuzz"
               /\ Len(assertion_exception) > 0 ) => pc'[self] = "xtx" ]_vars

\* with two templates registered, one was found and reported, the other is
\* live and the next iteration has started
C12_Witness ==
    \E self \in Workers :
        /\ config.exception_mode
        /\ Len(InitialAssertions(config.prog)) = 2
        /\ Len(reported) = 1
        /\ Len(assertion_exception) = 1
        /\ pc[self] = "xtx"

\* the property-mode worker of a run with shrinking is inside _shrink_tx_sequence,
\* its last trial not yet over
InShrinker(self) ==
    \/ pc[self] = "shrink"
    \/ pc[self] = "replay"
    \/ pc[self] \in {"check", "check_ret"} /\ caller[self] = "shrink"

(***************************************************************************)
(* C13: in property mode with shrinking, a violated property stays in the  *)
(* obligation set from its detection through every shrink trial, so that   *)
(* each trial's check still calls it; the set is changed neither by        *)
(* _test_tx_sequence nor by a trial, only by the step that ends the        *)
(* shrinker, which removes the properties of the finding.                  *)
(***************************************************************************)
C13_RemovalDeferredToShrinkerEnd ==
    [][ (~config.no_shrink /\ ~config.exception_mode) =>
          \A self \in Workers :
            /\ InShrinker(self) =>
                 ToSet(Names(properties_violated[self])) \subseteq ToSet(property_functions)
            /\ property_functions' # property_functions =>
                 /\ ShrinkerEndStep(self)
                 /\ property_functions' =
                        RemoveAll(property_functions, Names(properties_violated[self])) ]_vars

\* a shrink trial's check is calling the very property whose violation is being shrunk
C13_Witness ==
    \E self \in Workers :
        /\ ~config.no_shrink
        /\ pc[self] = "check_ret"
        /\ caller[self] = "shrink"
        /\ trials[self] >= 2
        /\ curprop[self] \in ToSet(Names(properties_violated[self]))

\* the exception-mode worker of a run with shrinking is inside _shrink_tx_sequence
InExcShrinker(self) == pc[self] \in {"xshrink", "xreplay"} /\ ~config.no_shrink

(***************************************************************************)
(* C14: in exception mode with shrinking the found obligation is retired   *)
(* on completion of the shrinker and not before: while the trials run, no  *)
(* template has left the obligation set that has not been reported, and a  *)
(* live template still matches the message of the finding.                 *)
(***************************************************************************)
C14_TemplateLiveWhileShrinking ==
    \A self \in Workers :
        InExcShrinker(self) =>
            /\ Len(assertion_exception) + Len(reported) = Len(InitialAssertions(config.prog))
            /\ Matching(assertion_exception, message[self]) # {}

\* the run is on the contract whose only property returns 0 in every state
AlwaysFalseRun == config.prog = "AlwaysFalse"

\* an iteration has ended without a finding and nothing was ever reported
IterationFoundNothing(self) ==
    /\ pc[self] = "fuzz"
    /\ lastcall[self] # "none"
    /\ reported = << >>

(***************************************************************************)
(* C15 as stated: a property that returns 0 in every state is found in the *)
(* very first iteration, also when generated calls revert, and is reported *)
(* with a call sequence of length 0 and no events, with and without        *)
(* shrinking.                                                              *)
(***************************************************************************)
C15_FoundAtOnceWithEmptySequence ==
    \A self \in Workers :
        AlwaysFalseRun =>
            /\ ~IterationFoundNothing(self)
            /\ pc[self] = "report" =>
                 /\ Len(shrinked_sequence[self]) = 0
                 /\ \A k \in 1..Len(properties_violated[self]) :
                        properties_violated[self][k].events_emitted = << >>

(***************************************************************************)
(* C15, amended: the oracle runs only after a successful mutating call, so *)
(* the property is found right after the first call of an iteration that   *)
(* succeeds: _test_tx_sequence returns that one call (reverted calls       *)
(* before it are not kept) and the violation with no events.  With         *)
(* shrinking the reported sequence is shrunk to length 0, without          *)
(* shrinking it is that one call; the property is then retired.  An        *)
(* iteration whose generated calls all revert finds nothing.               *)
(***************************************************************************)
C15_FoundAfterFirstSuccessfulCall ==
    \A self \in Workers :
        AlwaysFalseRun =>
            /\ pc[self] \in {"tx", "check", "check_ret"} /\ caller[self] # "shrink" =>
                 /\ Len(transactions[self]) <= 1
                 /\ pc[self] = "tx" => transactions[self] = << >>
            /\ pc[self] \in {"shrink", "replay", "report"} =>
                 /\ Len(transactions[self]) = 1
                 /\ OutcomeAt(config.prog, transactions[self], 1).ok
                 /\ properties_violated[self] = << ViolatedProperty("p1", << >>) >>
            /\ pc[self] = "report" =>
                 Len(shrinked_sequence[self]) = IF config.no_shrink THEN 1 ELSE 0
            /\ (pc[self] = "fuzz" /\ reported # << >>) =>
                 /\ reported = << "p1" >>
                 /\ property_functions = << >>
            /\ IterationFoundNothing(self) => lastcall[self] = "revert"

\* the first generated call reverted, the second succeeded and the property
\* was found, reported here without shrinking with that one call
C15_Witness ==
    \E self \in Workers :
        /\ AlwaysFalseRun
        /\ config.no_shrink
        /\ pc[self] = "report"
        /\ seqi[self] >= 1
        /\ Len(shrinked_sequence[self]) = 1

\* the run is on a contract of scenario B: p1 returns 0 exactly when f1, f2 and
\* f3 have all been called, p2 exactly when one call has been made (f1, one of
\* the three, in ScenarioB; f4, none of them, in ScenarioB4)
ScenarioBRun == config.prog \in {"ScenarioB", "ScenarioB4"}

\* fuzz() has returned
Returned(self) == pc[self] = "done"

(***************************************************************************)
(* C16 as stated: in a scenario-B program every failing sequence found for *)
(* p1 is shrunk to exactly 3 elements and every one found for p2 to        *)
(* exactly 1, and both properties are retired by the end of the run.       *)
(***************************************************************************)
C16_ShrunkToThreeAndOne ==
    \A self \in Workers :
        ScenarioBRun =>
            /\ Shrunk(self) =>
                 \A p \in ToSet(Names(properties_violated[self])) :
                     Len(shrinked_sequence[self]) = IF p = "p1" THEN 3 ELSE 1
            /\ Returned(self) =>
                 /\ property_functions = << >>
                 /\ ToSet(reported) = {"p1", "p2"}

(***************************************************************************)
(* C16, amended: a finding that violates p1 is shrunk to exactly 3         *)
(* elements and a finding that violates p2 alone to exactly 1.  When the   *)
(* call that falsifies p2 is one of the three of p1, the call completing   *)
(* the three can violate both at once: the finding lists p1 and p2 and its *)
(* sequence is shrunk to 3 elements; when it is none of them every finding *)
(* violates one property.  Both are retired by the end of the run.         *)
(***************************************************************************)
C16_ShrunkByFinding ==
    \A self \in Workers :
        ScenarioBRun =>
            /\ Shrunk(self) =>
                 /\ Len(shrinked_sequence[self]) =
                        IF "p1" \in ToSet(Names(properties_violated[self])) THEN 3 ELSE 1
                 /\ config.prog = "ScenarioB4" => Len(properties_violated[self]) = 1
            /\ Returned(self) =>
                 /\ property_functions = << >>
                 /\ ToSet(reported) = {"p1", "p2"}

\* a sequence of four calls found for p1 alone has been shrunk to three
C16_Witness ==
    \E self \in Workers :
        /\ config.prog = "ScenarioB4"
        /\ Shrunk(self)
        /\ Names(properties_violated[self]) = << "p1" >>
        /\ Len(transactions[self]) = 4
        /\ Len(shrinked_sequence[self]) = 3

\* no trial that removes one element of the sequence handed to the shrinker
\* reproduces an equivalent violation
NoRemovalReproduces(self) ==
    \A k \in 0..(Len(transactions[self]) - 1) :
        ~Equivalent(self, RemoveAt(transactions[self], k))

(***************************************************************************)
(* C17: if no single-element removal reproduces the violation, the         *)
(* shrinker (of either mode) returns the sequence it was given: the same   *)
(* elements in the same order.                                             *)
(***************************************************************************)
C17_UnshrinkableReturnedUnchanged ==
    \A self \in Workers :
        (Shrunk(self) \/ ExcShrunk(self)) /\ NoRemovalReproduces(self) =>
            shrinked_sequence[self] = transactions[self]

\* a sequence of at least two calls went through the shrinker, every trial failed
C17_Witness ==
    \E self \in Workers :
        /\ Shrunk(self) \/ ExcShrunk(self)
        /\ NoRemovalReproduces(self)
        /\ Len(transactions[self]) >= 2
        /\ trials[self] = Len(transactions[self])
        /\ shrinked_sequence[self] = transactions[self]

(***************************************************************************)
(* Fuzzer._deploy and the coverage map                                     *)
(***************************************************************************)

\* call infos directly under one call info, and under the deploy transaction
MaxCalls == 2

\* an address a deploy syscall of the constructor deploys a contract at
OtherAddr == "other"

Addresses == {MainAddr, OtherAddr}

\* sets of program counters a call info carries
PcSample == { {1}, {2} }

\* a CallInfo; has_pc is hasattr(call_info, "pc")
CallInfo(addr, type, has_pc, pcs, children) ==
    [contract_address |-> addr, entry_point_type |-> type, class_hash |-> ClassHash(addr),
     has_pc |-> has_pc, pc |-> pcs, internal_calls |-> children]

\* call infos without internal calls.  The deployed contract's own constructor is
\* the call info of the transaction, never one of its internal calls.  Whether
\* call infos carry `pc` depends on the installed cairo-lang, not on the call.
LeafCalls(has_pc) ==
    { CallInfo(a, t, has_pc, IF has_pc THEN q ELSE {}, << >>) :
          a \in Addresses, t \in {"EXTERNAL", "CONSTRUCTOR"}, q \in PcSample }
        \ { c \in [contract_address : {MainAddr}, entry_point_type : {"CONSTRUCTOR"},
                    class_hash : {ClassHash(MainAddr)}, has_pc : BOOLEAN,
                    pc : PcSample \cup {{}}, internal_calls : {<< >>}] : TRUE }

\* call infos with at most one internal call
CallTrees(has_pc) ==
    LeafCalls(has_pc) \cup { [c EXCEPT !.internal_calls = <<d>>] :
                                 c \in LeafCalls(has_pc), d \in LeafCalls(has_pc) }

\* the order the calls were executed in: a call before its internal calls
RECURSIVE ExecutionOrder(_)
ExecutionOrder(calls) ==
    IF calls = << >> THEN << >>
    ELSE <<Head(calls)>> \o ExecutionOrder(Head(calls).internal_calls)
             \o ExecutionOrder(Tail(calls))

\* what StarknetState.deploy on the empty state can return: a contract is
\* constructed at most once, and called only once its constructor has started
Executable(calls) ==
    LET order == ExecutionOrder(calls)
        built == { k \in 1..Len(order) : order[k].entry_point_type = "CONSTRUCTOR" }
    IN  /\ Cardinality(built) <= 1
        /\ \A k \in 1..Len(order) :
               order[k].contract_address = OtherAddr /\ k \notin built =>
                   \E j \in built : j < k

InternalCallLists(has_pc) ==
    { calls \in UNION { [1..n -> CallTrees(has_pc)] : n \in 0..MaxCalls } : Executable(calls) }

\* the order get_coverage_internal_calls visits the call infos in: the loop of
\* line 243 recurses into a call's internal calls before it looks at the call
RECURSIVE VisitOrder(_)
VisitOrder(calls) ==
    IF calls = << >> THEN << >>
    ELSE (IF Len(Head(calls).internal_calls) > 0
            THEN VisitOrder(Head(calls).internal_calls) ELSE << >>)
             \o <<Head(calls)>> \o VisitOrder(Tail(calls))

\* d[key] = value on a Python dict
SetItem(d, key, value) ==
    [k \in DOMAIN d \cup {key} |-> IF k = key THEN value ELSE d[k]]

EmptyDict == [k \in {} |-> {}]

\* the body of the loop of get_coverage_internal_calls for one call info,
\* on self.coverage
CoverageOfCall(cov, c) ==
    IF c.entry_point_type = "CONSTRUCTOR"
    THEN IF c.has_pc THEN SetItem(cov, c.contract_address, c.pc)
                     ELSE SetItem(cov, c.contract_address, {})
    ELSE IF c.contract_address \in DOMAIN cov
         THEN SetItem(cov, c.contract_address, cov[c.contract_address] \cup c.pc)
         ELSE SetItem(cov, c.contract_address, c.pc)

\* mutant: the linkage of a constructed instance is not recorded
LinkageOfCallDropped(link, c) == link

\* the same body on self._deployed_address_to_class_hash
LinkageOfCall(link, c) ==
    IF c.entry_point_type = "CONSTRUCTOR"
    THEN SetItem(link, c.contract_address, c.class_hash)
    ELSE link

\* `internal_call.pc` of line 253 or 255 raises AttributeError
PcMissing(c) == c.entry_point_type # "CONSTRUCTOR" /\ ~c.has_pc

\* the fields of the Fuzzer other than coverage and linkage, and the worker's
workervars == << config, fstate, property_functions, assertion_exception, reported, pc,
                 state, seqi, transactions, checkLocals, shrinkLocals, lastcall >>

\* a Fuzzer that has not deployed yet: nothing is registered, no worker runs
NotStarted ==
    /\ config = [prog |-> "ScenarioB", no_shrink |-> FALSE, exception_mode |-> FALSE]
    /\ fstate = {}
    /\ property_functions = << >>
    /\ assertion_exception = << >>
    /\ reported = << >>
    /\ pc = [w \in Workers |-> "fuzz"]
    /\ state = [w \in Workers |-> NoState]
    /\ seqi = [w \in Workers |-> 0]
    /\ transactions = [w \in Workers |-> << >>]
    /\ violated = [w \in Workers |-> << >>]
    /\ pidx = [w \in Workers |-> 0]
    /\ curprop = [w \in Workers |-> ""]
    /\ caller = [w \in Workers |-> ""]
    /\ invoked = [w \in Workers |-> {}]
    /\ checkStart = [w \in Workers |-> << >>]
    /\ properties_violated = [w \in Workers |-> << >>]
    /\ shrinked_sequence = [w \in Workers |-> << >>]
    /\ test_sequence = [w \in Workers |-> << >>]
    /\ i = [w \in Workers |-> 0]
    /\ message = [w \in Workers |-> << >>]
    /\ trials = [w \in Workers |-> 0]
    /\ lastcall = [w \in Workers |-> "none"]

\* _deploy, lines 165-171: the classes of config.declare are declared and
\* registered; a contract can only construct instances of declared classes
Declared == [h \in {ClassHash(OtherAddr)} |-> OtherAddr]

\* the artifact is compiled and not read yet
NotRead ==
    /\ contract_class = None
    /\ external_functions = << >>
    /\ warned = << >>
    /\ args_blacklist_function = {}

InitDeploy ==
    /\ NotStarted
    /\ coverage = EmptyDict
    /\ fpc = "start"
    /\ internal_calls = << >>
    /\ deployed_address_to_class_hash = EmptyDict
    /\ class_hash_to_contract_class = Declared
    /\ call_tree = << >>
    /\ NotRead
    /\ abi = << >>
    /\ calldata = << >>
    /\ submitted_call = None
    /\ rsample = {}
    /\ gpc = "generate"

\* _deploy, lines 173-185: the deploy transaction returns, its program counters
\* become the coverage of the deployed address, and get_coverage_internal_calls
\* is entered with the transaction's internal calls
Deploy ==
    /\ fpc = "start"
    /\ \E has_pc \in BOOLEAN, pcs \in PcSample :
           \E calls \in InternalCallLists(has_pc) :
               /\ coverage' = SetItem(coverage, MainAddr, IF has_pc THEN pcs ELSE {})
               /\ internal_calls' = VisitOrder(calls)
               /\ call_tree' = calls
    /\ fpc' = "coverage"
    /\ UNCHANGED << workervars, deployed_address_to_class_hash,
                    class_hash_to_contract_class, setupvars, genvars >>

\* get_coverage_internal_calls, lines 246-255: the next call info is recorded,
\* or the AttributeError of a call info without `pc` leaves start()
GetCoverageInternalCall ==
    /\ fpc = "coverage"
    /\ internal_calls # << >>
    /\ IF PcMissing(Head(internal_calls))
       THEN /\ fpc' = "raised"
            /\ UNCHANGED << coverage, deployed_address_to_class_hash, internal_calls >>
       ELSE /\ coverage' = CoverageOfCall(coverage, Head(internal_calls))
            /\ deployed_address_to_class_hash' =
                   LinkageOfCall(deployed_address_to_class_hash, Head(internal_calls))
            /\ internal_calls' = Tail(internal_calls)
            /\ UNCHANGED fpc
    /\ UNCHANGED << workervars, class_hash_to_contract_class, call_tree, setupvars, genvars >>

\* _deploy, lines 187-192: the deployed address is linked to its class
DeployEnd ==
    /\ fpc = "coverage"
    /\ internal_calls = << >>
    /\ deployed_address_to_class_hash' =
           SetItem(deployed_address_to_class_hash, MainAddr, ClassHash(MainAddr))
    /\ class_hash_to_contract_class' =
           SetItem(class_hash_to_contract_class, ClassHash(MainAddr), MainAddr)
    /\ fpc' = "deployed"
    /\ UNCHANGED << workervars, coverage, internal_calls, call_tree, setupvars, genvars >>

\* a worker records the program counters of a call it made
WorkerCoverage ==
    /\ fpc = "deployed"
    /\ \E pcs \in PcSample \cup { {3} } : coverage' = CoverageUpdate(coverage, pcs)
    /\ UNCHANGED << workervars, deployvars, genvars >>

NextDeploy ==
    \/ Deploy
    \/ GetCoverageInternalCall
    \/ DeployEnd
    \/ WorkerCoverage

SpecDeploy == InitDeploy /\ [][NextDeploy]_vars

\* C18: coverage never shrinks: every update of the coverage map, by _deploy, by
\* get_coverage_internal_calls on any call tree or by a worker, leaves each
\* address that had recorded coverage with a superset of what it had.
C18_CoverageMonotone ==
    [][\A a \in DOMAIN coverage :
           a \in DOMAIN coverage' /\ coverage[a] \subseteq coverage'[a]]_vars

(***************************************************************************)
(* Termination of fuzz()                                                   *)
(***************************************************************************)

\* the storages that generated calls which succeed lead to from the storages sts
AfterCall(prog, sts) ==
    UNION { { InvokeRaw(prog, st, tx.function_name, tx.arguments, tx.sender).st :
                  tx \in { t \in Generated(prog) :
                      InvokeRaw(prog, st, t.function_name, t.arguments, t.sender).ok } } :
            st \in sts }

\* the storages reachable from sts by at most n successful generated calls
RECURSIVE ReachableBy(_, _, _)
ReachableBy(prog, sts, n) ==
    IF n = 0 THEN sts ELSE ReachableBy(prog, sts \cup AfterCall(prog, sts), n - 1)

\* some sequence of at most seq_len successful calls from the baseline leaves the
\* contract in a storage where property p returns 0
PropertyViolable(prog, p) ==
    \E st \in ReachableBy(prog, AfterCall(prog, {PostDeploy(prog)}), SeqLen - 1) :
        LET r == CallRaw(prog, st, p, PSender) IN r.ok /\ r.retdata = <<0>>

\* some sequence of fewer than seq_len successful calls from the baseline can be
\* followed by a call that raises an AssertionException starting with template t
TemplateViolable(prog, t) ==
    \E st \in ReachableBy(prog, {PostDeploy(prog)}, SeqLen - 1), tx \in Generated(prog) :
        LET r == InvokeRaw(prog, st, tx.function_name, tx.arguments, tx.sender)
        IN  ~r.ok /\ r.assertion /\ StartsWith(r.msg, t)

\* every registered obligation of the run can be violated
AllViolable ==
    /\ \A p \in ToSet(InitialProperties(config.prog)) : PropertyViolable(config.prog, p)
    /\ \A t \in ToSet(InitialAssertions(config.prog)) : TemplateViolable(config.prog, t)

\* fuzz() was left by an exception it does not catch
Aborted(self) == pc[self] = "crashed"

NoDuplicates(s) == \A j, k \in 1..Len(s) : s[j] = s[k] => j = k

\* C19: when every registered obligation can be violated by at most seq_len
\* successful calls from the baseline, fuzz() keeps iterating until it returns
\* with no obligation left: it is never left by an uncaught exception, which
\* would end the run with obligations live, it returns only once the obligation
\* set is empty, and no property is reported twice.
C19_RunsUntilAllViolated ==
    \A self \in Workers :
        AllViolable =>
            /\ ~Aborted(self)
            /\ Returned(self) => Len(Obligations) = 0
            /\ ~config.exception_mode => NoDuplicates(reported)

(***************************************************************************)
(* TxGenerator: argument values                                            *)
(* Python integers are unbounded and the field prime has 252 bits: a       *)
(* number is modelled exactly, as the set of the positions of the 1 bits   *)
(* of its binary representation.                                           *)
(***************************************************************************)

\* array lengths are sampled in 1..MaxArrayLen (_generate_array_length draws in 1..10)
MaxArrayLen == 2

\* the Python int n
RECURSIVE FromInt(_)
FromInt(n) ==
    IF n = 0 THEN {}
    ELSE (IF n % 2 = 1 THEN {0} ELSE {}) \cup { b + 1 : b \in FromInt(n \div 2) }

\* 2**e
Pow2(e) == {e}

\* a << k
Shl(a, k) == { b + k : b \in a }

\* exactly one or all three of x, y, z
Odd(x, y, z) == (x = y) = z

\* the positions a sum or difference of a and b can have a 1 bit at
Width(a, b) ==
    IF a \cup b = {} THEN {0}
    ELSE 0..((CHOOSE x \in a \cup b : \A y \in a \cup b : y <= x) + 1)

\* a + b, bit by bit: a carry enters position k when a lower position holds a
\* 1 in both numbers and every position between holds a 1 in one of them
Add(a, b) ==
    LET Carry(k) == \E j \in a \cap b :
                        j < k /\ \A m \in (j + 1)..(k - 1) : m \in a \cup b
    IN  { k \in Width(a, b) : Odd(k \in a, k \in b, Carry(k)) }

\* a - b for a >= b, bit by bit: a borrow enters position k when a lower
\* position holds a 1 in b only and no position between holds a 1 in a only
Sub(a, b) ==
    LET Borrow(k) == \E j \in b \ a :
                         j < k /\ \A m \in (j + 1)..(k - 1) : m \notin a \ b
    IN  { k \in Width(a, b) : Odd(k \in a, k \in b, Borrow(k)) }

\* a * b
RECURSIVE Mul(_, _)
Mul(a, b) ==
    IF b = {} THEN {}
    ELSE LET k == CHOOSE x \in b : TRUE IN Add(Shl(a, k), Mul(a, b \ {k}))

\* a // 2
FloorDiv2(a) == { b - 1 : b \in a \ {0} }

\* a < b: the highest bit they differ in is a bit of b
Less(a, b) == \E x \in b \ a : \A y \in a \ b : y < x

\* starkware.cairo.lang.cairo_constants.DEFAULT_PRIME = 2**251 + 17 * 2**192 + 1
DEFAULT_PRIME == Add(Add(Pow2(251), Mul(FromInt(17), Pow2(192))), FromInt(1))

\* random.randint(a, b), a <= N <= b, sampled at both ends, next to them and
\* in the middle
RandInt(a, b) ==
    { a, Add(a, FromInt(1)), FloorDiv2(Add(a, b)), Sub(b, FromInt(1)), b }

\* random.random(), in tenths
RandomSample == 0..9

\* the edge cases: random.choice of three draws
EdgeCases ==
    RandInt(FromInt(0), FromInt(2))
        \cup RandInt(Sub(Pow2(128), FromInt(1)), Add(Pow2(128), FromInt(1)))
        \cup RandInt(Sub(DEFAULT_PRIME, FromInt(3)), Sub(DEFAULT_PRIME, FromInt(1)))

\* positive values within the range_check_builtin bound
WithinRangeCheck == RandInt(FromInt(0), Sub(Pow2(128), FromInt(1)))

\* mutant: the middle bucket reaches P // 2 itself
OutsideRangeCheckToHalf == RandInt(Pow2(128), FloorDiv2(DEFAULT_PRIME))

\* positive values outside the range_check_builtin bound
OutsideRangeCheck == RandInt(Pow2(128), Sub(FloorDiv2(DEFAULT_PRIME), FromInt(1)))

\* mutant: the last bucket reaches the prime itself
NegativeValuesUpToPrime == RandInt(FloorDiv2(DEFAULT_PRIME), DEFAULT_PRIME)

\* negative values
NegativeValues == RandInt(FloorDiv2(DEFAULT_PRIME), Sub(DEFAULT_PRIME, FromInt(1)))

\* _generate_int: the values it can return when random.random() returns r
GenerateInt(r) ==
    IF r < 5 THEN EdgeCases
    ELSE IF 5 <= r /\ r < 7 THEN WithinRangeCheck
    ELSE IF 7 <= r /\ r < 8 THEN OutsideRangeCheck
    ELSE NegativeValues

\* _generate_array_length
GenerateArrayLength == { FromInt(n) : n \in 1..MaxArrayLen }

\* CairoType trees
TypeFelt == [type |-> "TypeFelt"]
TypePointer(t) == [type |-> "TypePointer", pointee |-> t]
TypeTuple(ts) == [type |-> "TypeTuple", types |-> ts]
TypeStruct(name) == [type |-> "TypeStruct", name |-> name]

\* a CairoType that is none of the four
TypeCodeoffset == [type |-> "TypeCodeoffset"]

\* self.fuzzer.struct_definition: the member types of each struct, in order
struct_definition ==
    [n \in {"Uint256", "Mixed"} |->
        IF n = "Uint256" THEN << TypeFelt, TypeFelt >> ELSE << TypeFelt, TypeCodeoffset >>]

\* the argument lists of the functions the generator is asked for
AbiSample ==
    { << TypeFelt >>,
      << TypeFelt, TypeFelt >>,
      << TypePointer(TypeFelt) >>,
      << TypeTuple(<< TypeFelt, TypeFelt >>) >>,
      << TypeStruct("Uint256") >> }

\* argument lists with nested types and with types the generator does not know
NestedAbiSample ==
    { << TypePointer(TypeTuple(<< TypeFelt, TypeFelt >>)) >>,
      << TypeTuple(<< TypePointer(TypeFelt), TypeFelt >>) >>,
      << TypeCodeoffset >>,
      << TypeFelt, TypeCodeoffset >>,
      << TypeCodeoffset, TypeFelt >>,
      << TypePointer(TypeCodeoffset) >>,
      << TypeTuple(<< TypeFelt, TypeCodeoffset >>) >>,
      << TypeStruct("Mixed"), TypeFelt >> }

\* an element of calldata; is_length records that it was appended as an array
\* length (line 133) rather than as a scalar (line 129)
Element(is_length, v) == [is_length |-> is_length, value |-> v]

\* mutant: one element more than the drawn length
RepeatOneMore(t, n) == [k \in 1..(n + 1) |-> t]

\* n times the type t
Repeat(t, n) == [k \in 1..n |-> t]

\* the number a length element stands for
ToInt(v) == CHOOSE n \in 0..MaxArrayLen : FromInt(n) = v

\* what a call of _generate_value did: the elements it appended, and whether it
\* ended in sys.exit(1)
Outcome(appended, exited) == [calldata |-> appended, exited |-> exited]

\* mutant: an unknown type is passed over
UnknownTypeSkipped(arg_type) == { Outcome(<< >>, FALSE) }

\* the else branch of _generate_value: logging.error, sys.exit(1)
UnknownType(arg_type) == { Outcome(<< >>, TRUE) }

\* _generate_value: what a call can append to calldata for arg_type, and the
\* same for a list of types handled in order; nothing runs after sys.exit
RECURSIVE GenerateValue(_), GenerateValues(_)
GenerateValue(arg_type) ==
    CASE arg_type.type = "TypeFelt" ->
             { Outcome(<< Element(FALSE, v) >>, FALSE) :
                   v \in UNION { GenerateInt(r) : r \in rsample } }
      [] arg_type.type = "TypePointer" ->
             UNION { { Outcome(<< Element(TRUE, length) >> \o rest.calldata, rest.exited) :
                           rest \in GenerateValues(Repeat(arg_type.pointee, ToInt(length))) } :
                     length \in GenerateArrayLength }
      [] arg_type.type = "TypeTuple" -> GenerateValues(arg_type.types)
      [] arg_type.type = "TypeStruct" -> GenerateValues(struct_definition[arg_type.name])
      [] OTHER -> UnknownType(arg_type)

GenerateValues(types) ==
    IF types = << >> THEN { Outcome(<< >>, FALSE) }
    ELSE UNION { IF first.exited THEN { first }
                 ELSE { Outcome(first.calldata \o rest.calldata, rest.exited) :
                            rest \in GenerateValues(Tail(types)) } :
                 first \in GenerateValue(Head(types)) }

InitGenerator ==
    /\ NotStarted
    /\ coverage = EmptyDict
    /\ fpc = "start"
    /\ internal_calls = << >>
    /\ deployed_address_to_class_hash = EmptyDict
    /\ class_hash_to_contract_class = EmptyDict
    /\ call_tree = << >>
    /\ NotRead
    /\ \/ abi \in AbiSample /\ rsample = RandomSample
       \/ abi \in NestedAbiSample /\ rsample = {9}
    /\ calldata = << >>
    /\ submitted_call = None
    /\ gpc = "generate"

\* _generate_fuzzed_abi_value(abi), called by generate_fuzzed_tx: calldata starts
\* empty and every type of abi appends its values, until the list is returned
\* or sys.exit(1) ends the process
GenerateFuzzedAbiValue ==
    /\ gpc = "generate"
    /\ calldata = << >>
    /\ \E o \in GenerateValues(abi) :
           /\ calldata' = o.calldata
           /\ gpc' = IF o.exited THEN "exited" ELSE "returned"
    /\ UNCHANGED << workervars, coverage, deployvars, abi, submitted_call, rsample >>

\* _test_tx_sequence: self.state.invoke_raw with the arguments generate_fuzzed_tx
\* returned
InvokeGenerated ==
    /\ gpc = "returned"
    /\ gpc' = "submitted"
    /\ submitted_call' = [arguments |-> calldata]
    /\ UNCHANGED << workervars, coverage, deployvars, abi, calldata, rsample >>

NextGenerator ==
    \/ GenerateFuzzedAbiValue
    \/ InvokeGenerated

SpecGenerator == InitGenerator /\ [][NextGenerator]_vars

\* v is in [0, P); a number is never below 0
InField(v) == Less(v, DEFAULT_PRIME)

\* C20: every scalar _generate_int can return, whichever bucket the draw r
\* selects, lies in [0, P) for P = DEFAULT_PRIME, and so does every element of a
\* generated argument list that is not an array length.
C20_ScalarsInField ==
    /\ \A r \in RandomSample : \A v \in GenerateInt(r) : InField(v)
    /\ \A k \in 1..Len(calldata) : ~calldata[k].is_length => InField(calldata[k].value)

C20_Witness ==
    \E j, k \in 1..Len(calldata) :
        /\ calldata[j].is_length
        /\ ~calldata[k].is_length
        /\ calldata[k].value = Sub(DEFAULT_PRIME, FromInt(1))

\* generate_fuzzed_tx returned: the list is complete
GeneratorReturned == gpc \in {"returned", "submitted"}

\* the array length an element of calldata stands for, 0 when it is not a
\* number of 1..10
LengthAt(cd, p) ==
    IF \E n \in 1..10 : FromInt(n) = cd[p].value
    THEN CHOOSE n \in 1..10 : FromInt(n) = cd[p].value
    ELSE 0

\* the flattening of a type tree read off a list cd from position p on: the
\* position after the last element the type accounts for, 0 when cd does not
\* fit.  A felt is one scalar, a tuple or struct its components in declared
\* order, a pointer a length L of 1..10 followed by L times the pointee.
RECURSIVE Flatten(_, _, _), FlattenAll(_, _, _)
Flatten(t, cd, p) ==
    IF p = 0 \/ p > Len(cd) THEN 0
    ELSE CASE t.type = "TypeFelt" -> IF cd[p].is_length THEN 0 ELSE p + 1
           [] t.type = "TypePointer" ->
                  IF cd[p].is_length /\ LengthAt(cd, p) > 0
                  THEN FlattenAll([k \in 1..LengthAt(cd, p) |-> t.pointee], cd, p + 1)
                  ELSE 0
           [] t.type = "TypeTuple" -> FlattenAll(t.types, cd, p)
           [] t.type = "TypeStruct" -> FlattenAll(struct_definition[t.name], cd, p)
           [] OTHER -> 0

FlattenAll(types, cd, p) ==
    IF p = 0 THEN 0
    ELSE IF types = << >> THEN p
    ELSE FlattenAll(Tail(types), cd, Flatten(Head(types), cd, p))

\* C21: the list _generate_fuzzed_abi_value returns is the flattening of the
\* argument types given the drawn array lengths: one scalar per felt, the
\* components of a tuple or struct in declared order, and for a pointer a length L
\* in 1..10 immediately followed by exactly L values of the pointee type, with
\* nothing left over.
C21_CalldataIsFlattening ==
    GeneratorReturned => FlattenAll(abi, calldata, 1) = Len(calldata) + 1

\* an array of two 2-tuples of felts was returned as 1 + 2 * 2 elements
C21_Witness ==
    /\ GeneratorReturned
    /\ abi = << TypePointer(TypeTuple(<< TypeFelt, TypeFelt >>)) >>
    /\ calldata[1].is_length /\ calldata[1].value = FromInt(2)
    /\ Len(calldata) = 5

\* a type shape _generate_value does not know occurs in the tree
RECURSIVE HasUnknownType(_)
HasUnknownType(t) ==
    CASE t.type = "TypeFelt" -> FALSE
      [] t.type = "TypePointer" -> HasUnknownType(t.pointee)
      [] t.type = "TypeTuple" -> \E k \in 1..Len(t.types) : HasUnknownType(t.types[k])
      [] t.type = "TypeStruct" ->
             \E k \in 1..Len(struct_definition[t.name]) :
                 HasUnknownType(struct_definition[t.name][k])
      [] OTHER -> TRUE

\* C22: a type shape other than felt, pointer, tuple or struct anywhere in the
\* argument types is fatal: once the generator has run the process has exited,
\* the list is never returned and no call is submitted with it.
C22_UnknownTypeIsFatal ==
    (\E k \in 1..Len(abi) : HasUnknownType(abi[k])) =>
        gpc \in {"generate", "exited"}

\* the exit happened with part of the calldata already generated
C22_Witness ==
    /\ abi = << TypeStruct("Mixed"), TypeFelt >>
    /\ gpc = "exited"
    /\ Len(calldata) = 1

(***************************************************************************)
(* Generated transactions and their replay                                 *)
(***************************************************************************)

\* the entry of external_functions a call names
FunctionNamed(prog, name) ==
    CHOOSE fn \in ToSet(ExternalFunctions(prog)) : fn.name = name

\* the number a sampled nonce <<e, d>> stands for
NonceValue(n) == Add(Pow2(n[1]), FromInt(n[2]))

\* the entry point type and nonce of call c are those of its function's type
NonceFitsType(prog, c) ==
    IF FunctionNamed(prog, c.function_name).type = "function"
    THEN c.entry_point_type = "EXTERNAL" /\ c.nonce = None
    ELSE /\ c.entry_point_type = "L1_HANDLER"
         /\ c.nonce # None
         /\ ~Less(NonceValue(c.nonce), Pow2(128))
         /\ ~Less(Pow2(250), NonceValue(c.nonce))

\* a shrink trial is about to be replayed
TrialStarts(self) == pc[self] \in {"replay", "xreplay"}

\* C23: a generated transaction carries a nonce iff its function is an
\* l1_handler: a "function" is EXTERNAL without nonce, an l1_handler is
\* L1_HANDLER with a nonce in [2^128, 2^250]; the recorded elements keep both, and
\* a shrink replay submits each call with the entry point type and nonce recorded
\* for it.
C23_NonceIffL1Handler ==
    \A self \in Workers :
        /\ \A k \in 1..Len(transactions[self]) :
               NonceFitsType(config.prog, transactions[self][k])
        /\ TrialStarts(self) =>
               \A k \in 1..Len(test_sequence[self]) :
                   /\ NonceFitsType(config.prog, InvokeArgs(test_sequence[self][k]))
                   /\ \E j \in 1..Len(transactions[self]) :
                          /\ transactions[self][j].function_name =
                                 InvokeArgs(test_sequence[self][k]).function_name
                          /\ transactions[self][j].entry_point_type =
                                 InvokeArgs(test_sequence[self][k]).entry_point_type
                          /\ transactions[self][j].nonce =
                                 InvokeArgs(test_sequence[self][k]).nonce

\* a trial with a message-handler call of nonce 2^250 and an external call
C23_Witness ==
    \E self \in Workers :
        /\ TrialStarts(self)
        /\ \E k \in 1..Len(test_sequence[self]) :
               /\ test_sequence[self][k].entry_point_type = "L1_HANDLER"
               /\ test_sequence[self][k].nonce = <<250, 0>>
        /\ \E k \in 1..Len(test_sequence[self]) :
               /\ test_sequence[self][k].entry_point_type = "EXTERNAL"
               /\ test_sequence[self][k].nonce = None

(***************************************************************************)
(* Fuzzer.start: the artifact is compiled, the contract is deployed, the   *)
(* ABI is read into properties and external functions, and the worker      *)
(* starts.                                                                 *)
(***************************************************************************)

\* the longest ABI of the modelled artifacts
MaxAbiLen == 3

\* item.get("stateMutability") is None
NoMutability == "none"

\* names are lists of chunks, so that str.startswith is computed on them
AbiItem(name, type, inputs, outputs, mutability) ==
    [name |-> name, type |-> type, inputs |-> inputs, outputs |-> outputs,
     stateMutability |-> mutability]

\* the ABI items the artifacts are made of: well-formed and ill-formed
\* properties, external functions and handlers, a view function, the fallback,
\* an event, and a constructor without or with arguments
ItemSample ==
    { AbiItem(<<"tayt_", "a">>, "function", << >>, <<"felt">>, "view"),
      AbiItem(<<"tayt_", "b">>, "function", << >>, <<"felt">>, "view"),
      AbiItem(<<"tayt_", "args">>, "function", <<"felt">>, <<"felt">>, "view"),
      AbiItem(<<"tayt_", "ext">>, "function", << >>, <<"felt">>, NoMutability),
      AbiItem(<<"tayt_", "two">>, "function", << >>, <<"felt", "felt">>, "view"),
      AbiItem(<<"tayt_", "u256">>, "function", << >>, <<"Uint256">>, "view"),
      AbiItem(<<"tayt_", "h">>, "l1_handler", <<"felt">>, << >>, NoMutability),
      AbiItem(<<"f">>, "function", <<"felt">>, << >>, NoMutability),
      AbiItem(<<"h">>, "l1_handler", <<"felt">>, << >>, NoMutability),
      AbiItem(<<"v">>, "function", << >>, <<"felt">>, "view"),
      AbiItem(<<"__default__">>, "function", <<"felt">>, <<"felt">>, NoMutability),
      AbiItem(<<"E">>, "event", << >>, << >>, NoMutability),
      AbiItem(<<"constructor">>, "constructor", << >>, << >>, NoMutability),
      AbiItem(<<"constructor">>, "constructor", <<"felt">>, << >>, NoMutability) }

\* an ABI names each of its items once
AbiLists ==
    { a \in UNION { [1..n -> ItemSample] : n \in 0..MaxAbiLen } :
          \A j, k \in 1..Len(a) : j # k => a[j].name # a[k].name }

\* compile_starknet_files returned: the artifact, with or without an ABI, and
\* whether its constructor reverts when it is deployed without calldata
Artifacts ==
    { [has_abi |-> FALSE, abi |-> << >>, constructor_reverts |-> FALSE] }
        \cup { [has_abi |-> TRUE, abi |-> a, constructor_reverts |-> FALSE] : a \in AbiLists }
        \cup { [has_abi |-> TRUE, abi |-> a, constructor_reverts |-> TRUE] :
                   a \in { l \in AbiLists : \E k \in 1..Len(l) : l[k].type = "constructor" } }

\* --blacklist-function of the modelled runs: not given, or naming an external
\* function and a function the ABI may lack
BlacklistArguments == { {}, { <<"f">>, <<"g">> } }

\* the user's names are ignored
BlacklistDefaultsOnly == { <<"constructor">>, <<"__default__">>, <<"__l1__default__">> }

\* config.blacklist_function: the constructor and the fallbacks, and the names
\* given with --blacklist-function
blacklist_function ==
    { <<"constructor">>, <<"__default__">>, <<"__l1__default__">> } \cup args_blacklist_function

\* the prefix of property functions
PropertyPrefix == <<"tayt_">>

\* the constructor check never fires
ConstructorNeverChecked(items) == FALSE

\* _deploy, lines 155-160: the loop stops at the first constructor item and
\* exits when that item has inputs
ConstructorTakesArguments(items) ==
    \E k \in 1..Len(items) :
        /\ items[k].type = "constructor"
        /\ \A j \in 1..(k - 1) : items[j].type # "constructor"
        /\ Len(items[k].inputs) # 0

\* the criteria without the mutability
RespectsCriteriaAnyMutability(item) ==
    /\ Len(item.inputs) = 0
    /\ Len(item.outputs) = 1
    /\ item.outputs[1] = "felt"

\* _deploy, lines 203-208: the criteria of a property function
RespectsCriteria(item) ==
    /\ Len(item.inputs) = 0
    /\ item.stateMutability = "view"
    /\ Len(item.outputs) = 1
    /\ item.outputs[1] = "felt"

\* parse_arguments of cairo-lang: the Cairo types of the inputs of an item
ParseArguments(inputs) == [k \in 1..Len(inputs) |-> TypeFelt]

\* the lists _deploy fills
Registered(props, ext, warnings) ==
    [property_functions |-> props, external_functions |-> ext, warned |-> warnings]

\* _deploy, lines 200-220: the loop over the ABI
RECURSIVE ReadAbi(_, _)
ReadAbi(items, acc) ==
    IF items = << >> THEN acc
    ELSE LET item == Head(items)
         IN  ReadAbi(Tail(items),
                 IF StartsWith(item.name, PropertyPrefix) /\ item.type = "function"
                 THEN IF RespectsCriteria(item)
                      THEN [acc EXCEPT !.property_functions = Append(@, item.name)]
                      ELSE [acc EXCEPT !.warned = Append(@, item.name)]
                 ELSE IF /\ item.stateMutability = NoMutability
                         /\ item.name \notin blacklist_function
                         /\ item.type \in {"function", "l1_handler"}
                      THEN [acc EXCEPT !.external_functions =
                                Append(@, Fn(item.name, ParseArguments(item.inputs), item.type))]
                      ELSE acc)

InitSetup ==
    /\ NotStarted
    /\ coverage = EmptyDict
    /\ fpc = "start"
    /\ internal_calls = << >>
    /\ deployed_address_to_class_hash = EmptyDict
    /\ class_hash_to_contract_class = EmptyDict
    /\ call_tree = << >>
    /\ contract_class \in Artifacts
    /\ external_functions = << >>
    /\ warned = << >>
    /\ args_blacklist_function \in BlacklistArguments
    /\ abi = << >>
    /\ calldata = << >>
    /\ submitted_call = None
    /\ rsample = {9}
    /\ gpc = "generate"

\* start, lines 134-138: an artifact without ABI ends the process
CheckAbi ==
    /\ fpc = "start"
    /\ fpc' = IF contract_class.has_abi THEN "deploy" ELSE "exited"
    /\ UNCHANGED << workervars, coverage, internal_calls, deployed_address_to_class_hash,
                    class_hash_to_contract_class, call_tree, setupvars, genvars >>

\* _deploy, lines 155-160: a constructor with arguments ends the process
CheckConstructor ==
    /\ fpc = "deploy"
    /\ fpc' = IF ConstructorTakesArguments(contract_class.abi) THEN "exited" ELSE "construct"
    /\ UNCHANGED << workervars, coverage, internal_calls, deployed_address_to_class_hash,
                    class_hash_to_contract_class, call_tree, setupvars, genvars >>

\* _deploy, lines 173-198: the contract is deployed, here by a transaction
\* without internal calls, and its address and class are recorded; the
\* StarkException of a reverting constructor ends the process
DeployContract ==
    /\ fpc = "construct"
    /\ IF contract_class.constructor_reverts
       THEN /\ fpc' = "exited"
            /\ UNCHANGED << coverage, deployed_address_to_class_hash,
                            class_hash_to_contract_class >>
       ELSE /\ \E has_pc \in BOOLEAN, pcs \in PcSample :
                   coverage' = SetItem(coverage, MainAddr, IF has_pc THEN pcs ELSE {})
            /\ deployed_address_to_class_hash' =
                   SetItem(deployed_address_to_class_hash, MainAddr, ClassHash(MainAddr))
            /\ class_hash_to_contract_class' =
                   SetItem(class_hash_to_contract_class, ClassHash(MainAddr), MainAddr)
            /\ fpc' = "abi"
    /\ UNCHANGED << workervars, internal_calls, call_tree, setupvars, genvars >>

\* _deploy, lines 200-222: the ABI is read, and the assertion on the external
\* functions raises or lets _deploy return
SetupFunctions ==
    /\ fpc = "abi"
    /\ LET read == ReadAbi(contract_class.abi, Registered(<< >>, << >>, << >>))
       IN  /\ property_functions' = read.property_functions
           /\ external_functions' = read.external_functions
           /\ warned' = read.warned
           /\ fpc' = IF Len(read.external_functions) > 0 THEN "deployed" ELSE "raised"
    /\ UNCHANGED << config, fstate, assertion_exception, reported, pc, state, seqi,
                    transactions, checkLocals, shrinkLocals, lastcall, coverage,
                    internal_calls, deployed_address_to_class_hash,
                    class_hash_to_contract_class, call_tree, contract_class,
                    args_blacklist_function, genvars >>

\* config.sender without --sender
sender == {0, 1, 2}

\* start, lines 139-141: the worker is created once _deploy has returned, and
\* fuzz() is at its loop head
StartWorker ==
    /\ fpc = "deployed"
    /\ \E self \in Workers : Fuzz(self)

\* the first step of the worker in _test_tx_sequence: generate_fuzzed_tx
\* selects a sender and an external function and generates its arguments, and
\* the call is submitted
WorkerSubmits ==
    /\ fpc = "deployed"
    /\ \E self \in Workers : pc[self] = "tx"
    /\ gpc = "generate"
    /\ \E selected_sender \in sender, fn \in ToSet(external_functions) :
           /\ abi' = fn.arguments_type
           /\ \E o \in GenerateValues(fn.arguments_type),
                 nonce \in IF fn.type = "function" THEN {None} ELSE NonceSample :
                  /\ calldata' = o.calldata
                  /\ gpc' = IF o.exited THEN "exited" ELSE "submitted"
                  /\ submitted_call' =
                         IF o.exited THEN None
                         ELSE [sender |-> selected_sender, function_name |-> fn.name,
                               arguments |-> o.calldata,
                               entry_point_type |-> EntryPointType(fn), nonce |-> nonce]
    /\ UNCHANGED << workervars, coverage, deployvars, rsample >>

\* start, lines 143-146: fuzz() has returned, and the end of the run is logged
\* when no property is left
LogAllViolated ==
    /\ fpc = "deployed"
    /\ \A self \in Workers : pc[self] = "done"
    /\ fpc' = IF Len(property_functions) = 0 THEN "all_violated" ELSE "finished"
    /\ UNCHANGED << workervars, coverage, internal_calls, deployed_address_to_class_hash,
                    class_hash_to_contract_class, call_tree, setupvars, genvars >>

NextSetup ==
    \/ CheckAbi
    \/ CheckConstructor
    \/ DeployContract
    \/ SetupFunctions
    \/ StartWorker
    \/ WorkerSubmits
    \/ LogAllViolated

SpecSetup == InitSetup /\ [][NextSetup]_vars

\* the ABI of the artifact has been read
AbiRead == fpc \in {"deployed", "raised"}

\* the prefixed functions of the ABI
PrefixedFunction(item) ==
    /\ item.type = "function"
    /\ Len(item.name) >= 1
    /\ item.name[1] = "tayt_"

\* the shape of a property: no inputs, view, exactly one felt output
PropertyShape(item) ==
    item.inputs = << >> /\ item.stateMutability = "view" /\ item.outputs = << "felt" >>

\* the mutating functions: functions and handlers without mutability that are
\* not blacklisted
Mutating(item) ==
    /\ ~PrefixedFunction(item)
    /\ item.type \in {"function", "l1_handler"}
    /\ item.stateMutability = NoMutability
    /\ item.name \notin blacklist_function

ItemNames(items) == [k \in 1..Len(items) |-> items[k].name]

\* C24: once the ABI is read, a prefixed function is a registered property if
\* and only if it takes no inputs, is view and has exactly one felt output; a
\* prefixed function of another shape is in the warnings and is neither a
\* property nor an external function; the properties are exactly the
\* well-shaped prefixed functions and the external functions exactly the
\* mutating functions, in ABI order, whatever was warned about; and a warning
\* never ends setup.
C24_PropertyIffShape ==
    AbiRead =>
        LET items == contract_class.abi
        IN  /\ \A k \in 1..Len(items) :
                   PrefixedFunction(items[k]) =>
                       /\ items[k].name \in ToSet(property_functions) <=> PropertyShape(items[k])
                       /\ ~PropertyShape(items[k]) =>
                              /\ items[k].name \in ToSet(warned)
                              /\ items[k].name \notin ToSet(ItemNames(external_functions))
            /\ property_functions =
                   ItemNames(SelectSeq(items, LAMBDA it : PrefixedFunction(it) /\ PropertyShape(it)))
            /\ warned =
                   ItemNames(SelectSeq(items, LAMBDA it : PrefixedFunction(it) /\ ~PropertyShape(it)))
            /\ ItemNames(external_functions) = ItemNames(SelectSeq(items, Mutating))
            /\ fpc = "raised" <=> \A k \in 1..Len(items) : ~Mutating(items[k])

\* an ABI with an ill-shaped prefixed function before a property and an
\* external function: all three are read and the worker can start
C24_Witness ==
    /\ fpc = "deployed"
    /\ contract_class.abi[1].name = <<"tayt_", "ext">>
    /\ warned = << <<"tayt_", "ext">> >>
    /\ property_functions = << <<"tayt_", "a">> >>
    /\ ItemNames(external_functions) = << <<"f">> >>

\* the four fatal conditions of setup, read off the artifact
NoAbi == ~contract_class.has_abi
ConstructorWithArguments ==
    \E k \in 1..Len(contract_class.abi) :
        contract_class.abi[k].type = "constructor" /\ contract_class.abi[k].inputs # << >>
ConstructorReverts == contract_class.constructor_reverts
NoMutatingFunction ==
    contract_class.has_abi /\ \A k \in 1..Len(contract_class.abi) : ~Mutating(contract_class.abi[k])

\* the worker has not begun an iteration and no call was submitted
NothingSubmitted ==
    /\ gpc = "generate"
    /\ calldata = << >>
    /\ \A w \in Workers : pc[w] = "fuzz" /\ seqi[w] = 0 /\ transactions[w] = << >>

\* C25: an artifact without ABI, a constructor that takes arguments, a
\* constructor that reverts on deploy and an ABI without mutating functions
\* each stop start() at their check: the run never gets past it, _deploy never
\* returns, and no call of a fuzzing sequence is ever submitted.
C25_FatalSetupNeverFuzzes ==
    /\ NoAbi => fpc \in {"start", "exited"}
    /\ ConstructorWithArguments => fpc \in {"start", "deploy", "exited"}
    /\ ConstructorReverts => fpc \in {"start", "deploy", "construct", "exited"}
    /\ NoMutatingFunction => fpc \in {"start", "deploy", "construct", "abi", "exited", "raised"}
    /\ NoAbi \/ ConstructorWithArguments \/ ConstructorReverts \/ NoMutatingFunction =>
           fpc # "deployed" /\ NothingSubmitted

\* an ABI with properties and no mutating function: the assertion of _deploy
\* has raised after the properties were registered
C25_Witness ==
    /\ fpc = "raised"
    /\ NoMutatingFunction
    /\ ~NoAbi /\ ~ConstructorWithArguments /\ ~ConstructorReverts
    /\ property_functions # << >>
    /\ external_functions = << >>

(***************************************************************************)
(* The budget of an iteration and what _test_tx_sequence returns           *)
(***************************************************************************)

\* the worker is about to generate and submit the next call of the iteration;
\* seqi calls were submitted before it
AboutToSubmit(self) == pc[self] \in {"tx", "xtx"}

\* _test_tx_sequence has returned a sequence and a violation, which fuzz()
\* shrinks or reports
ReturnedSequence(self) == pc[self] \in {"shrink", "replay", "report", "xshrink", "xreplay", "xreport"}

\* the violation returned next to the sequence
ReturnedViolation(self) ==
    IF config.exception_mode THEN message[self] ELSE properties_violated[self]

\* C26: an iteration submits at most seq_len calls, and a call that reverted
\* used up one of them: before each call fewer than seq_len calls were
\* submitted and the sequence holds at most one element per submitted call;
\* and when _test_tx_sequence returns a sequence, it has between 1 and seq_len
\* elements and comes with a non-empty violation.
C26_BudgetAndReturn ==
    \A self \in Workers :
        /\ seqi[self] < SeqLen
        /\ AboutToSubmit(self) => Len(transactions[self]) <= seqi[self]
        /\ Len(transactions[self]) <= seqi[self] + 1
        /\ ReturnedSequence(self) =>
               /\ Len(transactions[self]) \in 1..SeqLen
               /\ ReturnedViolation(self) # << >>

\* the last call of the budget found a violation after an earlier call of the
\* iteration reverted: the returned sequence is shorter than seq_len
C26_Witness ==
    \E self \in Workers :
        /\ pc[self] = "shrink"
        /\ trials[self] = 0
        /\ seqi[self] = SeqLen - 1
        /\ Len(transactions[self]) \in 1..(SeqLen - 1)
        /\ properties_violated[self] # << >>

(***************************************************************************)
(* The shrinker as a single pass over the input sequence                   *)
(***************************************************************************)

\* the worker is inside _shrink_tx_sequence, in either mode
Shrinking(self) == InShrinker(self) \/ pc[self] \in {"xshrink", "xreplay"}

\* the loop head `while i < len(shrinked_sequence)`
AtLoopHead(self) == pc[self] \in {"shrink", "xshrink"}

\* a trial sequence was built and is about to be replayed
TrialBuilt(self) == pc[self] \in {"replay", "xreplay"}

\* the elements of the input sequence no trial has removed yet
Untried(self) == SubSeq(transactions[self], trials[self] + 1, Len(transactions[self]))

\* what the candidate holds from the 0-based index k on
FromCursor(seq, k) == SubSeq(seq, k + 1, Len(seq))

\* a step that ends a trial: the oracle check returns to the shrinker, or the
\* exception-mode replay is over
TrialEnds(self) ==
    \/ pc[self] = "check" /\ caller[self] = "shrink" /\ pc'[self] = "shrink"
    \/ pc[self] = "xreplay" /\ pc'[self] = "xshrink"

\* the shrinker runs to its end when the worker keeps running
SpecFair == Spec /\ WF_vars(Next)

\* C27: the shrinker is an index-preserving single pass.  At the loop head the
\* candidate holds, from the cursor on, exactly the input elements no trial has
\* removed yet, in input order; trial number t removes input element number t;
\* a trial ends either with the trial sequence as the candidate and the cursor
\* where it was, or with the candidate unchanged and the cursor one further; a
\* shrinker that returns has replayed exactly len(input) trials; and a worker
\* that entered the shrinker leaves it.
C27_SinglePass ==
    /\ [](\A self \in Workers :
            /\ Shrinking(self) => trials[self] <= Len(transactions[self])
            /\ AtLoopHead(self) =>
                   FromCursor(shrinked_sequence[self], i[self]) = Untried(self)
            /\ TrialBuilt(self) =>
                   /\ shrinked_sequence[self][i[self] + 1] = transactions[self][trials[self] + 1]
                   /\ test_sequence[self] = RemoveAt(shrinked_sequence[self], i[self])
            /\ Shrunk(self) \/ ExcShrunk(self) => trials[self] = Len(transactions[self]))
    /\ [][\A self \in Workers :
            TrialEnds(self) =>
                \/ shrinked_sequence'[self] = test_sequence[self] /\ i'[self] = i[self]
                \/ shrinked_sequence'[self] = shrinked_sequence[self] /\ i'[self] = i[self] + 1]_vars
    /\ \A self \in Workers : Shrinking(self) ~> ~Shrinking(self)

\* the shrinker has returned after adopting a trial and after rejecting one:
\* the sequence is shorter than the input and not empty, every element was tried
C27_Witness ==
    \E self \in Workers :
        /\ Shrunk(self)
        /\ trials[self] = Len(transactions[self])
        /\ Len(shrinked_sequence[self]) \in 1..(Len(transactions[self]) - 1)
        /\ Len(transactions[self]) >= 3

(***************************************************************************)
(* What a shrink trial submits                                             *)
(***************************************************************************)

\* the replay loop the worker is about to run on its trial sequence
TrialRun(self) ==
    IF config.exception_mode
    THEN ExcReplayRun(config.prog, Storage(self), test_sequence[self], message[self], << >>)
    ELSE [st |-> ReplayRun(config.prog, Storage(self), test_sequence[self], << >>).st,
          exception |-> FALSE,
          calls |-> ReplayRun(config.prog, Storage(self), test_sequence[self], << >>).calls]

\* the call c is the one recorded in the element e
RecordedIn(c, e) ==
    /\ c.function_name = e.function_name
    /\ c.arguments = e.arguments
    /\ c.sender = e.sender
    /\ c.entry_point_type = e.entry_point_type
    /\ c.nonce = e.nonce

\* the state after the first n elements of seq were submitted from st, a
\* reverted call leaving the state as it was
RECURSIVE StateAfter(_, _, _, _)
StateAfter(prog, st, seq, n) ==
    IF n = 0 THEN st
    ELSE LET before == StateAfter(prog, st, seq, n - 1)
             r == InvokeRaw(prog, before, seq[n].function_name, seq[n].arguments, seq[n].sender)
         IN  IF r.ok THEN r.st ELSE before

\* element n of seq reverts when the elements before it were submitted from st
RevertsAt(prog, st, seq, n) ==
    ~InvokeRaw(prog, StateAfter(prog, st, seq, n - 1),
               seq[n].function_name, seq[n].arguments, seq[n].sender).ok

\* element n of seq raises the message of the finding
ReproducesAt(prog, st, seq, n, m) ==
    LET r == InvokeRaw(prog, StateAfter(prog, st, seq, n - 1),
                       seq[n].function_name, seq[n].arguments, seq[n].sender)
    IN  ~r.ok /\ r.assertion /\ r.msg = m

\* C28 as stated: a trial submits the recorded calls, and whatever call
\* reverts, the rest of the trial is still replayed: every element of the
\* trial sequence is submitted.
C28_EveryRevertSkipped ==
    \A self \in Workers :
        TrialBuilt(self) =>
            /\ Len(TrialRun(self).calls) = Len(test_sequence[self])
            /\ \A k \in 1..Len(test_sequence[self]) :
                   RecordedIn(TrialRun(self).calls[k], test_sequence[self][k])

\* C28: a trial submits, in order, calls with exactly the function name,
\* arguments, sender, entry point type and nonce of elements of the input
\* sequence, never a generated one; a call that reverts leaves the state as it
\* was and the next element is submitted; the only revert that ends a trial
\* early is, in exception mode, the one that raises the message of the finding.
C28_ReplayIsRecorded ==
    \A self \in Workers :
        TrialBuilt(self) =>
            LET run == TrialRun(self)
                seq == test_sequence[self]
                n == Len(run.calls)
            IN  /\ n <= Len(seq)
                /\ \A k \in 1..n :
                       /\ RecordedIn(run.calls[k], seq[k])
                       /\ \E j \in 1..Len(transactions[self]) :
                              RecordedIn(run.calls[k], transactions[self][j])
                /\ run.st = StateAfter(config.prog, Storage(self), seq, n)
                /\ \A k \in 1..(n - 1) :
                       ~ReproducesAt(config.prog, Storage(self), seq, k, message[self])
                /\ n < Len(seq) =>
                       /\ config.exception_mode
                       /\ ReproducesAt(config.prog, Storage(self), seq, n, message[self])

\* a trial in which a call reverts, is skipped, and the elements after it are
\* submitted all the same
C28_Witness ==
    \E self \in Workers :
        /\ TrialBuilt(self)
        /\ Len(TrialRun(self).calls) = Len(test_sequence[self])
        /\ \E k \in 1..(Len(test_sequence[self]) - 1) :
               RevertsAt(config.prog, Storage(self), test_sequence[self], k)

(***************************************************************************)
(* What get_coverage_internal_calls leaves behind                          *)
(***************************************************************************)

\* get_coverage_internal_calls has visited every call info and returned
CoverageReturned == fpc = "coverage" /\ internal_calls = << >>

\* every call info of the tree passed to get_coverage_internal_calls
TrackedCalls == ToSet(ExecutionOrder(call_tree))

\* C29: after get_coverage_internal_calls has returned, the executed
\* instruction addresses of every call of the nested call tree are contained
\* in the coverage entry of that call's own contract address, also when a
\* nested call and its enclosing constructor call target the same address.
C29_EveryCallAttributed ==
    CoverageReturned =>
        \A c \in TrackedCalls :
            /\ c.contract_address \in DOMAIN coverage
            /\ c.pc \subseteq coverage[c.contract_address]

(***************************************************************************)
(* Every recorded address can be resolved by output_coverage               *)
(***************************************************************************)

\* output_coverage, lines 266-267: the two lookups for a contract address
Resolvable(addr) ==
    /\ addr \in DOMAIN deployed_address_to_class_hash
    /\ deployed_address_to_class_hash[addr] \in DOMAIN class_hash_to_contract_class

\* _deploy has returned
Deployed == fpc = "deployed"

IsSubsequence(sub, seq) == Embeddings(sub, seq) # {}

\* C33: the sequence a shrinker returns is an order-preserving subsequence of
\* its input whose elements are the input's elements unmodified, events
\* recorded at discovery included; the same holds of every candidate and trial
\* on the way, and no step of a shrinker changes the input list.
C33_ReturnsSubsequence ==
    /\ [](\A self \in Workers :
            /\ Shrinking(self) =>
                   /\ IsSubsequence(shrinked_sequence[self], transactions[self])
                   /\ IsSubsequence(test_sequence[self], transactions[self])
            /\ Shrunk(self) \/ ExcShrunk(self) =>
                   IsSubsequence(shrinked_sequence[self], transactions[self]))
    /\ [][\A self \in Workers :
            Shrinking(self) => transactions'[self] = transactions[self]]_vars

\* a shrinker has returned two elements of a longer input that were not
\* neighbours in it, with the events they had emitted
C33_Witness ==
    \E self \in Workers :
        /\ Shrunk(self) \/ ExcShrunk(self)
        /\ Len(shrinked_sequence[self]) = 2
        /\ shrinked_sequence[self][1] # shrinked_sequence[self][2]
        /\ shrinked_sequence[self][1].events_emitted # << >>
        /\ \E j, k \in 1..Len(transactions[self]) :
               /\ j + 1 < k
               /\ transactions[self][j] = shrinked_sequence[self][1]
               /\ transactions[self][k] = shrinked_sequence[self][2]
               /\ \A f \in Embeddings(shrinked_sequence[self], transactions[self]) :
                      f[1] + 1 < f[2]

\* the positions of seq whose call, in a replay of seq from the baseline with
\* reverted calls skipped, reverts with the assertion message m
RaisingPositions(prog, seq, m) ==
    { k \in 1..Len(seq) : ReproducesAt(prog, PostDeploy(prog), seq, k, m) }

\* C34: in exception mode the sequence the shrinker returns is not empty, and
\* in its replay from the baseline the first call that reverts with the
\* message of the finding is its last element: nothing remains after the
\* raising call.
C34_RaisingCallIsLast ==
    \A self \in Workers :
        ExcShrunk(self) =>
            LET seq == shrinked_sequence[self]
                raising == RaisingPositions(config.prog, seq, message[self])
            IN  /\ seq # << >>
                /\ raising # {}
                /\ \A k \in raising : k = Len(seq)

\* the shrinker has returned after adopting a trial in which an element other
\* than the terminal one of the input raised the message
C34_Witness ==
    \E self \in Workers :
        /\ ExcShrunk(self)
        /\ config.prog = "Early"
        /\ Len(transactions[self]) = 3
        /\ transactions[self][1].function_name = "f1"
        /\ transactions[self][2].function_name = "f2"
        /\ ReproducesAt(config.prog, PostDeploy(config.prog), Tail(transactions[self]), 1,
                        message[self])
        /\ Len(shrinked_sequence[self]) = 1

(***************************************************************************)
(* Reverts and fuzz()                                                      *)
(***************************************************************************)

\* the read-only call of the property the oracle check is waiting for reverts
PropertyCallReverts(self) ==
    /\ pc[self] = "check_ret"
    /\ ~CallRaw(config.prog, Storage(self), curprop[self], PSender).ok

\* C35: in property mode no StarkException leaves fuzz(): whenever the
\* read-only call of a property reverts, during sequence construction or in the
\* oracle check that ends a shrink trial, the worker handles it and keeps
\* running.
C35_NoRevertLeavesFuzz ==
    [][\A self \in Workers : PropertyCallReverts(self) => pc'[self] # "crashed"]_vars

\* the items of the ABI a submitted call can be resolved to
ItemsNamed(name) ==
    { contract_class.abi[k] : k \in { j \in 1..Len(contract_class.abi) :
                                          contract_class.abi[j].name = name } }

\* C36: a submitted call names an entry of external_functions and its sender
\* is in the sender pool; the function it names is not a view function, is
\* not named constructor, __default__ or __l1__default__ nor one of the names
\* given with --blacklist-function, and is not a prefixed entry of type
\* function; and no name is both a property and an external function.
C36_SubmitsExternalFunction ==
    /\ AbiRead =>
           ToSet(property_functions) \cap ToSet(ItemNames(external_functions)) = {}
    /\ gpc = "submitted" =>
           /\ submitted_call.function_name \in ToSet(ItemNames(external_functions))
           /\ submitted_call.sender \in {0, 1, 2}
           /\ submitted_call.function_name \notin
                  { <<"constructor">>, <<"__default__">>, <<"__l1__default__">> }
           /\ submitted_call.function_name \notin args_blacklist_function
           /\ ItemsNamed(submitted_call.function_name) # {}
           /\ \A item \in ItemsNamed(submitted_call.function_name) :
                  /\ item.stateMutability # "view"
                  /\ ~(item.type = "function" /\ item.name[1] = "tayt_")

\* a run with --blacklist-function over an ABI with a property, a blacklisted
\* external function and a handler: the handler is what is submitted
C36_Witness ==
    /\ gpc = "submitted"
    /\ args_blacklist_function # {}
    /\ property_functions # << >>
    /\ \E k \in 1..Len(contract_class.abi) :
           /\ contract_class.abi[k].name \in args_blacklist_function
           /\ contract_class.abi[k].stateMutability = NoMutability
    /\ submitted_call.function_name = <<"h">>
    /\ submitted_call.sender = 2

\* fuzz() is at its loop head for the first time and no property was registered
NoObligationAtStart(self) ==
    /\ fpc = "deployed"
    /\ pc[self] = "fuzz"
    /\ property_functions = << >>

\* C37: when no property was registered, the step fuzz() takes at its loop head
\* is its return: the baseline state is not copied, no transaction is generated
\* and no call is submitted, neither in that step nor later; the step that
\* follows the return is the log of start(), "All properties have been
\* violated"; and the log is only written when no property is left.
C37_EmptyObligationsReturnAtOnce ==
    /\ [][\A self \in Workers :
              NoObligationAtStart(self) =>
                  /\ pc'[self] = "done"
                  /\ state'[self] = NoState
                  /\ fstate' = fstate
                  /\ UNCHANGED << genvars, transactions, seqi, coverage >>]_vars
    /\ [][(fpc = "deployed" /\ \A self \in Workers : pc[self] = "done") =>
              fpc' = "all_violated"]_vars
    /\ [](fpc = "all_violated" =>
              /\ property_functions = << >>
              /\ \A self \in Workers :
                     /\ pc[self] = "done"
                     /\ state[self] = NoState
                     /\ transactions[self] = << >>
              /\ gpc = "generate"
              /\ calldata = << >>
              /\ submitted_call = None)

\* an ABI with external functions and only an ill-shaped prefixed function:
\* setup succeeds with a warning, the worker returns, and start() has logged
C37_Witness ==
    /\ fpc = "all_violated"
    /\ warned # << >>
    /\ external_functions # << >>
    /\ property_functions = << >>
    /\ \A self \in Workers : pc[self] = "done" /\ state[self] = NoState
    /\ submitted_call = None

(***************************************************************************)
(* The buckets of _generate_int                                            *)
(***************************************************************************)

\* the bounds random.randint was given, read off the values it can return
Lowest(values) == CHOOSE v \in values : \A w \in values : v = w \/ Less(v, w)
Highest(values) == CHOOSE v \in values : \A w \in values : v = w \/ Less(w, v)

\* the bounds of the three buckets that are not edge cases
Within == [lo |-> Lowest(WithinRangeCheck), hi |-> Highest(WithinRangeCheck)]
Outside == [lo |-> Lowest(OutsideRangeCheck), hi |-> Highest(OutsideRangeCheck)]
Negative == [lo |-> Lowest(NegativeValues), hi |-> Highest(NegativeValues)]
Buckets == { Within, Outside, Negative }

\* lo <= v <= hi
InBucket(v, bucket) == ~Less(v, bucket.lo) /\ ~Less(bucket.hi, v)

\* the buckets are [0, 2^128), [2^128, P // 2) and [P // 2, P): none is empty,
\* the first starts at 0, each of the next two starts one above the end of the
\* one before, and the last ends one below P
BucketsPartitionField ==
    /\ \A b \in Buckets : ~Less(b.hi, b.lo)
    /\ Within.lo = FromInt(0)
    /\ Within.hi = Sub(Pow2(128), FromInt(1))
    /\ Add(Within.hi, FromInt(1)) = Outside.lo
    /\ Outside.lo = Pow2(128)
    /\ Add(Outside.hi, FromInt(1)) = Negative.lo
    /\ Negative.lo = FloorDiv2(DEFAULT_PRIME)
    /\ Add(Negative.hi, FromInt(1)) = DEFAULT_PRIME

\* every edge-case value lies in exactly one of the three buckets
EdgeCasesInBuckets ==
    \A v \in EdgeCases : Cardinality({ b \in Buckets : InBucket(v, b) }) = 1

\* C38: the three buckets of _generate_int that are not edge cases are
\* [0, 2^128), [2^128, P // 2) and [P // 2, P), pairwise disjoint and covering
\* [0, P) exactly; a draw r of the run selects the edge cases if and only if
\* r < 0.5, the first bucket iff 0.5 <= r < 0.7, the second iff 0.7 <= r < 0.8
\* and the third iff 0.8 <= r, so exactly one of the four; every edge-case
\* value lies in exactly one of the three buckets, and so does every generated
\* scalar.
C38_BucketsPartitionField ==
    /\ BucketsPartitionField
    /\ EdgeCasesInBuckets
    /\ \A r \in rsample :
           /\ GenerateInt(r) = EdgeCases <=> r < 5
           /\ GenerateInt(r) = WithinRangeCheck <=> 5 <= r /\ r < 7
           /\ GenerateInt(r) = OutsideRangeCheck <=> 7 <= r /\ r < 8
           /\ GenerateInt(r) = NegativeValues <=> 8 <= r
           /\ Cardinality({ b \in { EdgeCases, WithinRangeCheck, OutsideRangeCheck,
                                    NegativeValues } : GenerateInt(r) = b }) = 1
    /\ \A k \in 1..Len(calldata) :
           ~calldata[k].is_length =>
               Cardinality({ b \in Buckets : InBucket(calldata[k].value, b) }) = 1

\* two generated scalars on the two sides of P // 2, the end of the middle
\* bucket and the start of the last one
C38_Witness ==
    /\ gpc = "returned"
    /\ rsample = RandomSample
    /\ Len(calldata) = 2
    /\ ~calldata[1].is_length /\ ~calldata[2].is_length
    /\ calldata[1].value = Sub(FloorDiv2(DEFAULT_PRIME), FromInt(1))
    /\ calldata[2].value = FloorDiv2(DEFAULT_PRIME)
    /\ InBucket(calldata[1].value, Outside)
    /\ ~InBucket(calldata[1].value, Negative)
    /\ InBucket(calldata[2].value, Negative)

(***************************************************************************)
(* Several FuzzerWorker instances over one Fuzzer: every worker runs       *)
(* FuzzerWorker.fuzz() on the Fuzzer's state, property list and coverage,  *)
(* and the tasks are interleaved where a worker awaits the execution       *)
(* client.                                                                 *)
(***************************************************************************)

\* the workers of a run with two tasks
ParallelWorkers == {1, 2}

\* the contracts of the runs with two tasks
ParallelPrograms == {"AlwaysFalse", "Alias"}

InitParallel ==
    /\ config \in { [prog |-> p, no_shrink |-> ns, exception_mode |-> FALSE] :
                        p \in ParallelPrograms, ns \in BOOLEAN }
    /\ fstate = PostDeploy(config.prog)
    /\ property_functions = InitialProperties(config.prog)
    /\ assertion_exception = InitialAssertions(config.prog)
    /\ coverage = [a \in {MainAddr} |-> {0}]
    /\ reported = << >>
    /\ pc = [w \in ParallelWorkers |-> "fuzz"]
    /\ state = [w \in ParallelWorkers |-> NoState]
    /\ seqi = [w \in ParallelWorkers |-> 0]
    /\ transactions = [w \in ParallelWorkers |-> << >>]
    /\ violated = [w \in ParallelWorkers |-> << >>]
    /\ pidx = [w \in ParallelWorkers |-> 0]
    /\ curprop = [w \in ParallelWorkers |-> ""]
    /\ caller = [w \in ParallelWorkers |-> ""]
    /\ invoked = [w \in ParallelWorkers |-> {}]
    /\ checkStart = [w \in ParallelWorkers |-> << >>]
    /\ properties_violated = [w \in ParallelWorkers |-> << >>]
    /\ shrinked_sequence = [w \in ParallelWorkers |-> << >>]
    /\ test_sequence = [w \in ParallelWorkers |-> << >>]
    /\ i = [w \in ParallelWorkers |-> 0]
    /\ message = [w \in ParallelWorkers |-> << >>]
    /\ trials = [w \in ParallelWorkers |-> 0]
    /\ lastcall = [w \in ParallelWorkers |-> "none"]
    /\ fpc = "deployed"
    /\ internal_calls = << >>
    /\ deployed_address_to_class_hash = [a \in {MainAddr} |-> ClassHash(MainAddr)]
    /\ class_hash_to_contract_class = [h \in {ClassHash(MainAddr)} |-> MainAddr]
    /\ call_tree = << >>
    /\ contract_class = None
    /\ external_functions = ExternalFunctions(config.prog)
    /\ warned = << >>
    /\ args_blacklist_function = {}
    /\ abi = << >>
    /\ calldata = << >>
    /\ submitted_call = None
    /\ rsample = {}
    /\ gpc = "generate"

\* one task runs from the await it stopped at to its next await
NextParallel ==
    \E self \in ParallelWorkers :
        \/ Fuzz(self)
        \/ TestTx(self)
        \/ CheckCall(self)
        \/ CheckRet(self)
        \/ CheckReturn(self)
        \/ ShrinkBegin(self)
        \/ ShrinkReplay(self)
        \/ ShrinkEnd(self)
        \/ Report(self)

SpecParallel == InitParallel /\ [][NextParallel]_vars

\* the positions a worker submits calls from
Calling(self) == pc[self] \in {"tx", "check_ret", "replay"}

\* the step is one of worker self
StepOf(self) ==
    \/ pc'[self] # pc[self]
    \/ seqi'[self] # seqi[self]
    \/ transactions'[self] # transactions[self]
    \/ state'[self] # state[self]

\* C31: with two workers interleaved over one Fuzzer, a worker that submits a
\* call holds a copy of its own, never the baseline object; no step changes
\* the baseline state; a step of one worker leaves the object and the storage
\* the other worker uses as they are; and every step is the step of one worker.
C31_WorkersAreIsolated ==
    /\ [](\A self \in ParallelWorkers : Calling(self) => state[self].obj = "own")
    /\ [][fstate' = fstate]_vars
    /\ [][\A self, other \in ParallelWorkers :
              self # other /\ StepOf(self) =>
                  /\ state'[other] = state[other]
                  /\ Storage(other)' = Storage(other)
                  /\ ~StepOf(other)]_vars

\* both workers are in the middle of a sequence, on storages that differ from
\* each other and from the baseline
C31_Witness ==
    /\ \A self \in ParallelWorkers : pc[self] = "tx" /\ state[self].obj = "own"
    /\ Storage(1) # Storage(2)
    /\ Storage(1) # fstate
    /\ Storage(2) # fstate
    /\ transactions[1] # << >>
    /\ transactions[2] # << >>

\* list.remove of the worker's next step raises ValueError: the property it
\* retires is no longer in the list
RemovalFails(self) ==
    \/ /\ pc[self] = "check_ret"
       /\ config.no_shrink
       /\ CallRaw(config.prog, Storage(self), curprop[self], PSender).ok
       /\ CallRaw(config.prog, Storage(self), curprop[self], PSender).retdata = <<0>>
       /\ curprop[self] \notin ToSet(property_functions)
    \/ /\ pc[self] = "shrink"
       /\ i[self] >= Len(shrinked_sequence[self])
       /\ RemoveRaises(property_functions, Names(properties_violated[self]))

\* the oracle check of the worker is over
CheckOver(self) == pc[self] = "check" /\ pidx[self] >= Len(property_functions)

\* C32: with two workers interleaved over one property list, no removal
\* fails, so that every property is removed at most once; an oracle check
\* that is over has evaluated every property that was live when it started;
\* and no property is reported twice.
C32_SharedListIsSafe ==
    /\ \A self \in ParallelWorkers : ~RemovalFails(self)
    /\ \A self \in ParallelWorkers :
           CheckOver(self) => ToSet(checkStart[self]) \subseteq invoked[self]
    /\ NoDuplicates(reported)

====
